---- MODULE Spec2Model ----
(***************************************************************************)
(* Session data migration of opencode-tools: the path remapper             *)
(* (path-utils.ts), the repository resolver (detect-repo.ts) and the       *)
(* session archive builder / extractor (session-archive.ts).               *)
(*                                                                         *)
(* Text is a sequence of tokens: a token stands for one or more            *)
(* characters that the model never needs to split ("/", "repo", "2").      *)
(* A string starts with another exactly when its token sequence does.      *)
(***************************************************************************)
EXTENDS Integers, Sequences, FiniteSets, TLC

VARIABLES
    pc,         \* which operation has run: "init", then the operation's name
    obj,        \* remapPaths: the JSON value passed in
    oldPath,    \* remapPaths: the path to replace
    newPath,    \* remapPaths: the replacement path
    remapped,   \* remapPaths: the value returned
    fs,         \* the local file system outside the record store: [dirs, files]
    home,       \* process.env.HOME (<<>> when unset)
    originalPath, \* resolveProjectPath: the session's original directory
    projectName,  \* resolveProjectPath: the repository name searched for
    resolution, \* resolveProjectPath: the PathResolutionResult returned
    readLog,    \* the directories readdir was called on by the last operation
    srcStore,   \* the record store of the machine the archive is built on
    archive,    \* the archive file: [exists, tree]
    store,      \* the record store of the machine the archive is extracted on
    storeBefore, \* store as it was when the last extraction started
    result,     \* what the last extraction returned (error = "none") or threw
    prevResult, \* what the extraction before the last returned or threw
    runs,       \* the number of extractions so far
    archives,   \* the archive directory: archive id -> the tree the zip holds
    tmp,        \* the temporary directories that exist: name -> tree
    today,      \* the current date, as toISOString().split("T")[0] gives it
    built,      \* what the last createSessionArchive returned or threw
    crashBase,  \* store as it was when the interrupted extraction started
    shares,     \* the private shares directory: file name -> content
    tool,       \* what the last ingest-session tool call returned or threw
    clock,      \* what Date.now() returns
    procs,      \* the createSessionArchive invocations in flight: id -> position
    packages,   \* the packages discoverPackages returned
    sorted      \* what sortByDependencies returned or threw

remapVars   == <<obj, oldPath, newPath, remapped>>
resolveVars == <<originalPath, projectName, resolution, readLog>>
machineVars == <<fs, home>>
archiveVars == <<srcStore, archive, store, storeBefore, result, prevResult, runs>>
buildVars   == <<archives, tmp, today, built>>
crashVars   == <<crashBase>>
ingestVars  == <<shares, tool>>
concVars    == <<clock, procs>>
sortVars    == <<packages, sorted>>
laterVars   == <<buildVars, crashVars, ingestVars, concVars, sortVars>>
vars == <<pc, remapVars, resolveVars, machineVars, archiveVars, laterVars>>

\* Longest array / object a JSON input holds.
MaxLen == 2
\* Deepest nesting of arrays / objects in a JSON input.
MaxDepth == 1
\* Most directories between ~/code and a repository placed below it.
MaxNest == 4
\* Most directories named like the project that the file system holds.
MaxRepos == 2
\* Most messages of the archived session.
MaxMsgs == 2
\* Most parts of each message of the archived session.
MaxParts == 1
\* Most snapshot files of the archived session's project.
MaxSnap == 2
\* Most extractions in one behaviour.
MaxExtracts == 2

(***************************************************************************)
(* Text                                                                    *)
(***************************************************************************)
Min(a, b) == IF a < b THEN a ELSE b

\* String.prototype.startsWith
StartsWith(s, p) ==
    /\ Len(p) <= Len(s)
    /\ SubSeq(s, 1, Len(p)) = p

\* String.prototype.indexOf, 1-based; 0 when pat does not occur in s
IndexOf(s, pat) ==
    LET hits == {i \in 1..(Len(s) - Len(pat) + 1) :
                    SubSeq(s, i, i + Len(pat) - 1) = pat}
    IN  IF hits = {} THEN 0 ELSE CHOOSE i \in hits : \A j \in hits : i <= j

\* GetSubstitution of ECMAScript for a string pattern (no capture groups):
\* in the replacement text "$$" is "$", "$&" the matched text, "$`" the text
\* before the match, "$'" the text after it; any other "$" stands for itself.
RECURSIVE GetSubstitution(_, _, _, _)
GetSubstitution(repl, matched, before, after) ==
    IF repl = <<>> THEN <<>>
    ELSE IF Head(repl) = "$" /\ Len(repl) >= 2 /\ repl[2] \in {"$", "&", "`", "'"}
    THEN (CASE repl[2] = "$" -> <<"$">>
            [] repl[2] = "&" -> matched
            [] repl[2] = "`" -> before
            [] repl[2] = "'" -> after)
         \o GetSubstitution(SubSeq(repl, 3, Len(repl)), matched, before, after)
    ELSE <<Head(repl)>> \o GetSubstitution(Tail(repl), matched, before, after)

\* String.prototype.replace(pattern: string, replacement: string):
\* the first occurrence of pat only, the replacement text expanded.
Replace(s, pat, repl) ==
    LET i == IndexOf(s, pat) IN
    IF i = 0 THEN s
    ELSE LET before == SubSeq(s, 1, i - 1)
             after  == SubSeq(s, i + Len(pat), Len(s))
         IN  before \o GetSubstitution(repl, pat, before, after) \o after

(***************************************************************************)
(* JSON values: a tag t and a payload v.                                   *)
(*   "str"  v = the text          "num", "bool"  v = <<the scalar>>        *)
(*   "null" v = <<>>              "arr"  v = the items in order            *)
(*   "obj"  v = the <<key, value>> entries in insertion order              *)
(***************************************************************************)
JStr(s)  == [t |-> "str",  v |-> s]
JNum(n)  == [t |-> "num",  v |-> <<n>>]
JBool(b) == [t |-> "bool", v |-> <<b>>]
JNull    == [t |-> "null", v |-> <<>>]
JArr(xs) == [t |-> "arr",  v |-> xs]
JObj(es) == [t |-> "obj",  v |-> es]

\* Mutant of remapPaths: only a string at the top level is rewritten.
remapPaths_Shallow(o, old, new) ==
    IF o.t = "str" /\ StartsWith(o.v, old)
    THEN JStr(Replace(o.v, old, new))
    ELSE o

\* path-utils.ts remapPaths
RECURSIVE remapPaths(_, _, _)
remapPaths(o, old, new) ==
    CASE o.t = "null" -> o
      [] o.t = "str"  -> IF StartsWith(o.v, old)
                         THEN JStr(Replace(o.v, old, new))
                         ELSE o
      [] o.t = "arr"  -> JArr([i \in 1..Len(o.v) |-> remapPaths(o.v[i], old, new)])
      [] o.t = "obj"  -> JObj([i \in 1..Len(o.v) |->
                                 <<o.v[i][1], remapPaths(o.v[i][2], old, new)>>])
      [] OTHER        -> o

(***************************************************************************)
(* Inputs of the remapPaths specification                                  *)
(***************************************************************************)
RepoPath == <<"/", "A", "/", "B", "/", "repo">>

OldPaths == {RepoPath}

NewPaths ==
    { <<"/", "C", "/", "repo">>,
      RepoPath \o <<"/", "new">>,
      <<"/", "A", "/", "B">>,
      <<"/", "C", "/", "$", "&">>,
      <<"/", "C", "/", "$", "$", "/", "repo">> }

\* The strings a record can hold, relative to the path being replaced.
StringsFor(old) ==
    { old,
      old \o <<"2">>,
      old \o <<"/", "src", "/", "x.ts">>,
      old \o <<"/", "repo", "/", "x.ts">>,
      old \o <<"/">> \o old,
      <<"/", "X">> \o old,
      <<"rel">> }

Leaves(old) ==
    {JStr(s) : s \in StringsFor(old)} \cup {JNum(1), JBool(TRUE), JNull}

Keys == <<"directory", "cwd", "root", "filePath">>

SeqsUpTo(S, n) == UNION {[1..k -> S] : k \in 0..n}

\* Arrays and objects of up to MaxLen leaves; each further level of nesting
\* wraps a value of the level below, alone or after a leaf.
RECURSIVE JsonValues(_, _)
JsonValues(old, d) ==
    IF d = 0 THEN Leaves(old)
    ELSE IF d = 1
    THEN LET items == SeqsUpTo(Leaves(old), Min(MaxLen, Len(Keys)))
         IN  Leaves(old)
               \cup {JArr(xs) : xs \in items}
               \cup {JObj([i \in 1..Len(xs) |-> <<Keys[i], xs[i]>>]) : xs \in items}
    ELSE LET inner == JsonValues(old, d - 1)
         IN  inner
               \cup {JArr(<<x>>) : x \in inner}
               \cup {JArr(<<JStr(old), x>>) : x \in inner}
               \cup {JObj(<<<<Keys[1], JStr(old)>>, <<Keys[2], x>>>>) : x \in inner}

NoValue == [t |-> "none", v |-> <<>>]

\* The variables of the other operations, at rest.
NoFs == [dirs |-> {}, files |-> {}]
NoResolution ==
    [resolved |-> FALSE, newPath |-> <<>>, requiresUserInput |-> FALSE,
     candidates |-> <<>>, called |-> FALSE]
ResolveIdle ==
    /\ originalPath = <<>>
    /\ projectName = <<>>
    /\ resolution = NoResolution
    /\ readLog = {}

NoTree == <<>>
NoResult ==
    [error |-> "not called", sessionId |-> <<>>, sessionTitle |-> <<>>,
     fileCount |-> 0, pathRemapped |-> FALSE, originalPath |-> <<>>,
     newPath |-> <<>>, remapToPath |-> <<>>]
ArchiveIdle ==
    /\ srcStore = NoTree
    /\ archive = [exists |-> FALSE, tree |-> NoTree]
    /\ store = NoTree
    /\ storeBefore = NoTree
    /\ result = NoResult
    /\ prevResult = NoResult
    /\ runs = 0

NoInfo == [found |-> FALSE, projectId |-> <<>>, title |-> <<>>,
           directory |-> <<>>, files |-> <<>>]
NoBuild ==
    [error |-> "not called", sessionId |-> <<>>, archiveId |-> <<>>,
     info |-> NoInfo, date |-> <<>>, updated |-> FALSE]
BuildIdle ==
    /\ archives = <<>>
    /\ tmp = <<>>
    /\ today = <<>>
    /\ built = NoBuild

CrashIdle == crashBase = NoTree

NoCall ==
    [outcome |-> "not called", kind |-> "none", message |-> <<>>,
     listing |-> <<>>, shareId |-> <<>>, projectPath |-> <<>>,
     searchForRepo |-> FALSE, pathRemapped |-> FALSE, newPath |-> <<>>]
IngestIdle ==
    /\ shares = <<>>
    /\ tool = NoCall

ConcIdle ==
    /\ clock = 0
    /\ procs = <<>>

NoSort == [error |-> "not called", order |-> <<>>]
SortIdle ==
    /\ packages = <<>>
    /\ sorted = NoSort

LaterIdle == BuildIdle /\ CrashIdle /\ IngestIdle /\ ConcIdle /\ SortIdle

InitRemap ==
    /\ pc = "init"
    /\ fs = NoFs
    /\ home = <<>>
    /\ ResolveIdle
    /\ ArchiveIdle
    /\ LaterIdle
    /\ oldPath \in OldPaths
    /\ newPath \in NewPaths
    /\ obj \in JsonValues(oldPath, MaxDepth)
    /\ remapped = NoValue

RemapPaths ==
    /\ pc = "init"
    /\ pc' = "remapPaths"
    /\ remapped' = remapPaths(obj, oldPath, newPath)
    /\ UNCHANGED <<obj, oldPath, newPath, resolveVars, machineVars, archiveVars,
                   laterVars>>

NextRemap == RemapPaths

SpecRemap == InitRemap /\ [][NextRemap]_vars

(***************************************************************************)
(* Claims about remapPaths (checked under SpecRemap)                       *)
(***************************************************************************)

\* C5: remapPaths is anchored on the repository path, not on a raw character
\* prefix: with oldPath = "/A/B/repo", the string "/A/B/repo2" (same leading
\* characters, another repository) is returned unchanged.
C5_PrefixAnchored ==
    (pc = "remapPaths" /\ oldPath = RepoPath /\ obj = JStr(RepoPath \o <<"2">>))
        => remapped = obj

\* What C6 says remapPaths returns: oldPath + rest becomes newPath + rest, every
\* other string and scalar is unchanged, arrays and objects keep length, keys
\* and order.
RECURSIVE TextualRemap(_, _, _)
TextualRemap(o, old, new) ==
    CASE o.t = "str" ->
            IF StartsWith(o.v, old)
            THEN JStr(new \o SubSeq(o.v, Len(old) + 1, Len(o.v)))
            ELSE o
      [] o.t = "arr" -> JArr([i \in 1..Len(o.v) |-> TextualRemap(o.v[i], old, new)])
      [] o.t = "obj" -> JObj([i \in 1..Len(o.v) |->
                                <<o.v[i][1], TextualRemap(o.v[i][2], old, new)>>])
      [] OTHER -> o

\* C6: remapPaths(value, oldPath, newPath) is the structure-preserving
\* transform that replaces the leading oldPath of a string by exactly newPath
\* and changes nothing else.
C6_StructurePreserving ==
    pc = "remapPaths" => remapped = TextualRemap(obj, oldPath, newPath)

(***************************************************************************)
(* The local file system: fs.dirs and fs.files are sets of absolute paths. *)
(* A path is text: "/" tokens separate the names, a name is one or more    *)
(* tokens (".git" is <<".", "git">>, so a hidden name starts with ".").    *)
(***************************************************************************)
\* node:path join(base, name)
Join(base, name) == base \o <<"/">> \o name

\* accessSync(path) succeeds
pathExistsSync(path) == path \in fs.dirs \cup fs.files

\* The names readdir(base) lists, with what each is.
ReadDir(base) ==
    {SubSeq(p, Len(base) + 2, Len(p)) :
        p \in {q \in fs.dirs \cup fs.files :
                 /\ StartsWith(q, base \o <<"/">>)
                 /\ Len(q) > Len(base) + 1
                 /\ \A i \in (Len(base) + 2)..Len(q) : q[i] # "/"}}

\* Some order in which readdir returns the names.
RECURSIVE SetToSeq(_)
SetToSeq(S) ==
    IF S = {} THEN <<>>
    ELSE LET x == CHOOSE y \in S : TRUE IN <<x>> \o SetToSeq(S \ {x})

\* detect-repo.ts isGitRepo: stat(dir/.git) succeeds and is a directory
GitDir == <<".", "git">>
isGitRepo(dirPath) == Join(dirPath, GitDir) \in fs.dirs

\* path-utils.ts getCommonSearchPaths
getCommonSearchPaths ==
    IF home = <<>> THEN <<>>
    ELSE << home \o <<"/", "Documents", "/", "Projects">>,
            Join(home, <<"Projects">>),
            Join(home, <<"projects">>),
            Join(home, <<"repos">>),
            Join(home, <<"Repos">>),
            Join(home, <<"code">>),
            Join(home, <<"Code">>),
            Join(home, <<"src">>),
            Join(home, <<"dev">>),
            Join(home, <<"Development">>),
            Join(home, <<"workspace">>),
            Join(home, <<"Workspace">>),
            Join(home, <<"git">>),
            Join(home, <<"GitHub">>),
            Join(home, <<"gitlab">>),
            home >>

\* findRepositoryByName's default maxDepth
DefaultMaxDepth == 3

\* detect-repo.ts searchInDirectory; SearchEntries is its loop over the entries
RECURSIVE searchInDirectory(_, _, _, _)
RECURSIVE SearchEntries(_, _, _, _, _)
SearchEntries(entries, basePath, name, maxDepth, currentDepth) ==
    IF entries = <<>> THEN <<>>
    ELSE LET entry    == Head(entries)
             fullPath == Join(basePath, entry)
             rest     == SearchEntries(Tail(entries), basePath, name,
                                       maxDepth, currentDepth)
         IN  IF Head(entry) = "." THEN rest
             ELSE IF fullPath \notin fs.dirs THEN rest
             ELSE (IF entry = name /\ isGitRepo(fullPath)
                      THEN <<fullPath>> ELSE <<>>)
                  \o (IF currentDepth < maxDepth
                      THEN searchInDirectory(fullPath, name, maxDepth,
                                             currentDepth + 1)
                      ELSE <<>>)
                  \o rest
searchInDirectory(basePath, name, maxDepth, currentDepth) ==
    IF currentDepth > maxDepth THEN <<>>
    ELSE IF basePath \notin fs.dirs THEN <<>>
    ELSE SearchEntries(SetToSeq(ReadDir(basePath)), basePath, name,
                       maxDepth, currentDepth)

\* The directories searchInDirectory calls readdir on.
RECURSIVE SearchReads(_, _, _)
SearchReads(basePath, maxDepth, currentDepth) ==
    IF currentDepth > maxDepth THEN {}
    ELSE {basePath} \cup
         (IF basePath \in fs.dirs /\ currentDepth < maxDepth
          THEN UNION {SearchReads(Join(basePath, e), maxDepth, currentDepth + 1) :
                        e \in {n \in ReadDir(basePath) :
                                 Head(n) # "." /\ Join(basePath, n) \in fs.dirs}}
          ELSE {})

\* Mutant of Unique: the candidates are not de-duplicated.
Unique_KeepDuplicates(xs) == xs

\* [...new Set(candidates)]: the first occurrence of each element, in order
RECURSIVE Unique(_)
Unique(xs) ==
    IF xs = <<>> THEN <<>>
    ELSE LET front == Unique(SubSeq(xs, 1, Len(xs) - 1))
             last  == xs[Len(xs)]
         IN  IF \E i \in 1..Len(front) : front[i] = last
             THEN front ELSE Append(front, last)

\* candidates.push(...found) over the search paths that exist
RECURSIVE SearchAll(_, _, _)
SearchAll(searchPaths, name, maxDepth) ==
    IF searchPaths = <<>> THEN <<>>
    ELSE (IF pathExistsSync(Head(searchPaths))
          THEN searchInDirectory(Head(searchPaths), name, maxDepth, 0)
          ELSE <<>>)
         \o SearchAll(Tail(searchPaths), name, maxDepth)

NullPath == <<"null">>

\* Mutant of findRepositoryByName: the first of several candidates is adopted.
findRepositoryByName_PickFirst(name, maxDepth) ==
    LET uniqueCandidates == Unique(SearchAll(getCommonSearchPaths, name, maxDepth))
    IN  [found      |-> Len(uniqueCandidates) > 0,
         path       |-> IF Len(uniqueCandidates) >= 1
                        THEN uniqueCandidates[1] ELSE NullPath,
         candidates |-> uniqueCandidates]

\* Mutant of findRepositoryByName: the search descends one level further.
findRepositoryByName_Deeper(name, maxDepth) ==
    LET uniqueCandidates ==
            Unique(SearchAll(getCommonSearchPaths, name, maxDepth + 1))
    IN  [found      |-> Len(uniqueCandidates) > 0,
         path       |-> IF Len(uniqueCandidates) = 1
                        THEN uniqueCandidates[1] ELSE NullPath,
         candidates |-> uniqueCandidates]

\* detect-repo.ts findRepositoryByName
findRepositoryByName(name, maxDepth) ==
    LET uniqueCandidates == Unique(SearchAll(getCommonSearchPaths, name, maxDepth))
    IN  [found      |-> Len(uniqueCandidates) > 0,
         path       |-> IF Len(uniqueCandidates) = 1
                        THEN uniqueCandidates[1] ELSE NullPath,
         candidates |-> uniqueCandidates]

\* The directories findRepositoryByName calls readdir on.
FindReads(maxDepth) ==
    UNION {SearchReads(getCommonSearchPaths[i], maxDepth, 0) :
             i \in {j \in DOMAIN getCommonSearchPaths :
                      pathExistsSync(getCommonSearchPaths[j])}}

\* Mutant of resolveProjectPath: the existence check of the original path is
\* missing, the repository is always searched by name.
resolveProjectPath_AlwaysSearch(original, name) ==
    LET searchResult == findRepositoryByName(name, DefaultMaxDepth) IN
    IF ~searchResult.found
    THEN [resolved |-> FALSE, newPath |-> NullPath,
          requiresUserInput |-> TRUE, candidates |-> <<>>, called |-> TRUE]
    ELSE IF searchResult.path # NullPath
    THEN [resolved |-> TRUE, newPath |-> searchResult.path,
          requiresUserInput |-> FALSE,
          candidates |-> searchResult.candidates, called |-> TRUE]
    ELSE [resolved |-> FALSE, newPath |-> NullPath,
          requiresUserInput |-> TRUE,
          candidates |-> searchResult.candidates, called |-> TRUE]

\* Mutant of resolveProjectPath: of several candidates the first is adopted.
resolveProjectPath_AdoptFirst(original, name) ==
    IF pathExistsSync(original)
    THEN [resolved |-> TRUE, newPath |-> original, requiresUserInput |-> FALSE,
          candidates |-> <<original>>, called |-> TRUE]
    ELSE LET searchResult == findRepositoryByName(name, DefaultMaxDepth) IN
         IF ~searchResult.found
         THEN [resolved |-> FALSE, newPath |-> NullPath,
               requiresUserInput |-> TRUE, candidates |-> <<>>, called |-> TRUE]
         ELSE [resolved |-> TRUE, newPath |-> searchResult.candidates[1],
               requiresUserInput |-> FALSE,
               candidates |-> searchResult.candidates, called |-> TRUE]

\* detect-repo.ts resolveProjectPath
resolveProjectPath(original, name) ==
    IF pathExistsSync(original)
    THEN [resolved |-> TRUE, newPath |-> original, requiresUserInput |-> FALSE,
          candidates |-> <<original>>, called |-> TRUE]
    ELSE LET searchResult == findRepositoryByName(name, DefaultMaxDepth) IN
         IF ~searchResult.found
         THEN [resolved |-> FALSE, newPath |-> NullPath,
               requiresUserInput |-> TRUE, candidates |-> <<>>, called |-> TRUE]
         ELSE IF searchResult.path # NullPath
         THEN [resolved |-> TRUE, newPath |-> searchResult.path,
               requiresUserInput |-> FALSE,
               candidates |-> searchResult.candidates, called |-> TRUE]
         ELSE [resolved |-> FALSE, newPath |-> NullPath,
               requiresUserInput |-> TRUE,
               candidates |-> searchResult.candidates, called |-> TRUE]

\* The directories resolveProjectPath calls readdir on.
ResolveReads(original) ==
    IF pathExistsSync(original) THEN {} ELSE FindReads(DefaultMaxDepth)

\* Mutant of verifyRepoPath: any existing directory is accepted.
verifyRepoPath_AnyDirectory(path) == path \in fs.dirs

\* detect-repo.ts verifyRepoPath
verifyRepoPath(path) == path \in fs.dirs /\ isGitRepo(path)

(***************************************************************************)
(* File systems of the resolveProjectPath specification                    *)
(***************************************************************************)
Home     == <<"/", "h">>
RepoName == <<"repo">>

RECURSIVE Nest(_, _)
Nest(base, k) == IF k = 0 THEN base ELSE Nest(Join(base, <<"d">>), k - 1)

\* Where a directory named like the project may be.
RepoSlots ==
    { Join(Home, RepoName),
      Join(Join(Home, <<"Projects">>), RepoName),
      Join(Join(Home, <<".", "hid">>), RepoName),
      Join(Join(Join(Home, <<"code">>), RepoName), RepoName) }
    \cup {Join(Nest(Join(Home, <<"code">>), k), RepoName) : k \in 0..MaxNest}

\* The directories above a path, the root excluded.
Ancestors(p) ==
    {SubSeq(p, 1, i - 1) : i \in {j \in 2..Len(p) : p[j] = "/"}}

\* "git": holds a .git directory; "gitfile": holds a .git file; "plain": no .git
SlotKinds == {"git", "gitfile", "plain"}

\* The file system that holds the chosen repository slots, the directories
\* above them, the home directory, and the original path as origKind says.
MakeFs(kindOf, original, origKind) ==
    LET slots == DOMAIN kindOf IN
    [dirs  |-> {Home}
                 \cup slots
                 \cup UNION {Ancestors(p) : p \in slots}
                 \cup {Join(p, GitDir) : p \in {q \in slots : kindOf[q] = "git"}}
                 \cup (IF origKind = "dir"
                       THEN {original} \cup Ancestors(original) ELSE {})
                 \cup (IF origKind = "file" THEN Ancestors(original) ELSE {}),
     files |-> {Join(p, GitDir) : p \in {q \in slots : kindOf[q] = "gitfile"}}
                 \cup (IF origKind = "file" THEN {original} ELSE {})]

SlotChoices ==
    UNION {[S -> SlotKinds] :
             S \in {T \in SUBSET RepoSlots : Cardinality(T) <= MaxRepos}}

RemapIdle ==
    /\ obj = NoValue
    /\ oldPath = <<>>
    /\ newPath = <<>>
    /\ remapped = NoValue

InitResolve ==
    /\ pc = "init"
    /\ RemapIdle
    /\ ArchiveIdle
    /\ LaterIdle
    /\ home \in {Home, <<>>}
    /\ originalPath = RepoPath
    /\ projectName \in {RepoName, <<"other">>}
    /\ \E kindOf \in SlotChoices, origKind \in {"absent", "dir", "file"} :
          fs = MakeFs(kindOf, originalPath, origKind)
    /\ resolution = NoResolution
    /\ readLog = {}

ResolveProjectPath ==
    /\ pc = "init"
    /\ pc' = "resolveProjectPath"
    /\ resolution' = resolveProjectPath(originalPath, projectName)
    /\ readLog' = ResolveReads(originalPath)
    /\ UNCHANGED <<fs, home, originalPath, projectName, remapVars, archiveVars,
                   laterVars>>

NextResolve == ResolveProjectPath

SpecResolve == InitResolve /\ [][NextResolve]_vars

(***************************************************************************)
(* Claims about resolveProjectPath (checked under SpecResolve)             *)
(***************************************************************************)
BaseName(p) ==
    LET cuts == {i \in 1..Len(p) : p[i] = "/"}
        last == CHOOSE i \in cuts : \A j \in cuts : j <= i
    IN  SubSeq(p, last + 1, Len(p))

\* d lies k directory levels below root, 1 <= k <= depth, and no name on the
\* way from root to d (d included) is hidden.
Below(root, d, depth) ==
    /\ StartsWith(d, root \o <<"/">>)
    /\ LET cuts == {i \in (Len(root) + 1)..Len(d) : d[i] = "/"}
       IN  /\ Cardinality(cuts) <= depth
           /\ \A i \in cuts : i < Len(d) /\ d[i + 1] # "."

\* The search scope: the directories named like the project that hold a .git
\* directory and lie below a search root that is a directory, as deep as the
\* search descends (the entries of a directory at currentDepth <= maxDepth).
Matches ==
    {d \in fs.dirs :
        /\ BaseName(d) = projectName
        /\ Join(d, GitDir) \in fs.dirs
        /\ \E i \in DOMAIN getCommonSearchPaths :
              /\ getCommonSearchPaths[i] \in fs.dirs
              /\ Below(getCommonSearchPaths[i], d, DefaultMaxDepth + 1)}

Range(xs) == {xs[i] : i \in DOMAIN xs}

\* C8: if originalPath exists on the local file system, resolveProjectPath
\* returns resolved = true, newPath = originalPath, requiresUserInput = false,
\* and reads no directory (no search is performed).
C8_ExistingPathShortCircuit ==
    (pc = "resolveProjectPath" /\ pathExistsSync(originalPath)) =>
        /\ resolution.resolved
        /\ resolution.newPath = originalPath
        /\ ~resolution.requiresUserInput
        /\ readLog = {}

\* C8's case: the original path exists while a search would have found a
\* repository of that name.
C8_Witness ==
    /\ pc = "resolveProjectPath"
    /\ pathExistsSync(originalPath)
    /\ Matches # {}
    /\ resolution.newPath = originalPath

\* C9: when originalPath does not exist and the matching repositories are not
\* exactly one, resolveProjectPath returns resolved = false, newPath = null,
\* requiresUserInput = true and candidates lists every match once.
C9_NeverGuesses ==
    (pc = "resolveProjectPath" /\ ~pathExistsSync(originalPath)
        /\ Cardinality(Matches) # 1) =>
        /\ ~resolution.resolved
        /\ resolution.newPath = NullPath
        /\ resolution.requiresUserInput
        /\ Range(resolution.candidates) = Matches
        /\ Len(resolution.candidates) = Cardinality(Matches)

\* C9's case: two repositories of the same name under different search roots.
C9_Witness ==
    /\ pc = "resolveProjectPath"
    /\ ~pathExistsSync(originalPath)
    /\ Matches = {Join(Join(Home, <<"Projects">>), RepoName),
                  Join(Join(Home, <<"code">>), RepoName)}
    /\ Len(resolution.candidates) = 2
    /\ resolution.requiresUserInput

JsonFile(v)  == [k |-> "json", fmt |-> "orig",   val |-> v]
Stringify(v) == [k |-> "json", fmt |-> "pretty", val |-> v]
Blob(n)      == [k |-> "raw",  fmt |-> "orig",   val |-> JNum(n)]

EmptyTree == NoTree

\* The tree that holds the given <<path, content>> pairs.
TreeOf(pairs) ==
    [p \in {pr[1] : pr \in pairs} |-> (CHOOSE pr \in pairs : pr[1] = p)[2]]

\* tree with the files of over added or replaced
Overlay(tree, over) ==
    [p \in DOMAIN tree \cup DOMAIN over |->
        IF p \in DOMAIN over THEN over[p] ELSE tree[p]]

\* String.prototype.endsWith
EndsWith(s, suffix) ==
    /\ Len(suffix) <= Len(s)
    /\ SubSeq(s, Len(s) - Len(suffix) + 1, Len(s)) = suffix

\* String.prototype.includes
Includes(s, part) == IndexOf(s, part) # 0

\* path.join of several names
RECURSIVE RelPath(_)
RelPath(names) ==
    IF Len(names) = 1 THEN names[1]
    ELSE names[1] \o <<"/">> \o RelPath(Tail(names))

\* The files of tree below the directory dir.
FilesBelow(tree, dir) == {p \in DOMAIN tree : StartsWith(p, dir \o <<"/">>)}

\* session-archive.ts fileExists: stat succeeds on a file or on a directory
fileExists(tree, path) == path \in DOMAIN tree \/ FilesBelow(tree, path) # {}

\* The first name of a relative path.
FirstName(rel) ==
    LET cuts == {i \in 1..Len(rel) : rel[i] = "/"}
    IN  IF cuts = {} THEN rel
        ELSE SubSeq(rel, 1, (CHOOSE i \in cuts : \A j \in cuts : i <= j) - 1)

\* readdir(dir): the names of the files and directories in dir
ListDir(tree, dir) ==
    {FirstName(SubSeq(p, Len(dir) + 2, Len(p))) : p \in FilesBelow(tree, dir)}

\* A key of a parsed JSON object; undefined (NoValue) when o has no such key.
Get(o, key) ==
    IF o.t = "obj" /\ \E i \in 1..Len(o.v) : o.v[i][1] = key
    THEN o.v[CHOOSE i \in 1..Len(o.v) : o.v[i][1] = key][2]
    ELSE NoValue

\* data[key] = value on a parsed JSON object that has the key
Set(o, key, value) ==
    JObj([i \in 1..Len(o.v) |->
            IF o.v[i][1] = key THEN <<key, value>> ELSE o.v[i]])

\* The text of a JSON string; <<>> for "" and for a value that is no string.
TextOf(j) == IF j.t = "str" THEN j.v ELSE <<>>

JsonExt     == <<".json">>
StorageDir  == <<"storage">>
SnapshotDir == <<"snapshot">>

SessionFilePath(projectId, sessionId) ==
    RelPath(<<StorageDir, <<"session">>, projectId, sessionId \o JsonExt>>)
MessageDir(sessionId) == RelPath(<<StorageDir, <<"message">>, sessionId>>)
PartDir(messageId)    == RelPath(<<StorageDir, <<"part">>, messageId>>)
SessionDiffPath(sessionId) ==
    RelPath(<<StorageDir, <<"session_diff">>, sessionId \o JsonExt>>)
ProjectFilePath(projectId) ==
    RelPath(<<StorageDir, <<"project">>, projectId \o JsonExt>>)
ProjectSnapshotDir(projectId) == RelPath(<<SnapshotDir, projectId>>)

(***************************************************************************)
(* session-archive.ts collectSessionFiles                                  *)
(***************************************************************************)
\* findSessionFile: the project directories of the session index that hold
\* <sessionId>.json
findSessionFile(tree, sessionId) ==
    {projectId \in ListDir(tree, RelPath(<<StorageDir, <<"session">>>>)) :
        fileExists(tree, SessionFilePath(projectId, sessionId))}

SessionFile(path, type) == [relativePath |-> path, type |-> type]

\* for (const msgFile of messageFiles): the message files in readdir order
MessageFiles(tree, sessionId) ==
    IF fileExists(tree, MessageDir(sessionId))
    THEN SetToSeq({Join(MessageDir(sessionId), n) :
                     n \in {m \in ListDir(tree, MessageDir(sessionId)) :
                              EndsWith(m, JsonExt)}})
    ELSE <<>>

\* Mutant of PartFiles: the parts of every message of the store are collected.
PartFiles_AllMessages(tree, messagePaths) ==
    SetToSeq({p \in FilesBelow(tree, RelPath(<<StorageDir, <<"part">>>>)) :
                EndsWith(p, JsonExt)})

\* Mutant of PartFiles: only the first message's parts are collected.
PartFiles_FirstMessage(tree, messagePaths) ==
    IF messagePaths = <<>> THEN <<>>
    ELSE LET partDir == PartDir(TextOf(Get(tree[Head(messagePaths)].val, "id")))
         IN  SetToSeq({Join(partDir, n) :
                         n \in {m \in ListDir(tree, partDir) : EndsWith(m, JsonExt)}})

\* for (const messageId of messageIds): the part files of the messages, where
\* a message's id is the id field of its document
RECURSIVE PartFiles(_, _)
PartFiles(tree, messagePaths) ==
    IF messagePaths = <<>> THEN <<>>
    ELSE LET messageId == TextOf(Get(tree[Head(messagePaths)].val, "id"))
             partDir   == PartDir(messageId)
         IN  (IF fileExists(tree, partDir)
              THEN SetToSeq({Join(partDir, n) :
                               n \in {m \in ListDir(tree, partDir) :
                                        EndsWith(m, JsonExt)}})
              ELSE <<>>)
             \o PartFiles(tree, Tail(messagePaths))

Typed(paths, type) == [i \in 1..Len(paths) |-> SessionFile(paths[i], type)]

NotFound == [found |-> FALSE, projectId |-> <<>>, title |-> <<>>,
             directory |-> <<>>, files |-> <<>>]

collectSessionFiles(tree, sessionId) ==
    IF findSessionFile(tree, sessionId) = {} THEN NotFound
    ELSE LET projectId   == CHOOSE q \in findSessionFile(tree, sessionId) : TRUE
             sessionPath == SessionFilePath(projectId, sessionId)
             sessionData == tree[sessionPath].val
             messages    == MessageFiles(tree, sessionId)
             diffPath    == SessionDiffPath(sessionId)
             projectPath == ProjectFilePath(projectId)
         IN  [found     |-> TRUE,
              projectId |-> projectId,
              title     |-> TextOf(Get(sessionData, "title")),
              directory |-> TextOf(Get(sessionData, "directory")),
              files     |->
                  <<SessionFile(sessionPath, "session")>>
                  \o Typed(messages, "message")
                  \o Typed(PartFiles(tree, messages), "part")
                  \o (IF fileExists(tree, diffPath)
                      THEN <<SessionFile(diffPath, "session_diff")>> ELSE <<>>)
                  \o (IF fileExists(tree, projectPath)
                      THEN <<SessionFile(projectPath, "project")>> ELSE <<>>)
                  \o Typed(SetToSeq(FilesBelow(tree, ProjectSnapshotDir(projectId))),
                           "snapshot")]

\* createSessionArchive, the staging loop: every collected file copied to its
\* relative path below the staging directory
StageFiles(tree, files) ==
    [p \in {files[i].relativePath : i \in 1..Len(files)} |-> tree[p]]

(***************************************************************************)
(* session-archive.ts extractSessionArchive                                *)
(***************************************************************************)
\* The temporary directory the archive is unpacked to.
TmpDir == <<"/", "tmp", "/", "opencode-extract">>

ImportedMarker == <<"[IMPORTED]">>

\* Truthiness of data.title
Truthy(j) ==
    CASE j.t \in {"none", "null"} -> FALSE
      [] j.t = "str"  -> j.v # <<>>
      [] j.t = "num"  -> j.v[1] # 0
      [] j.t = "bool" -> j.v[1]
      [] OTHER        -> TRUE

\* Mutant of MarkImported: the marker is added without looking for one.
MarkImported_Always(content, filePath) ==
    IF Includes(filePath, <<"/", "session", "/">>) /\ EndsWith(filePath, JsonExt)
          /\ content.k = "json" /\ Get(content.val, "title").t = "str"
    THEN Stringify(Set(content.val, "title",
            JStr(ImportedMarker \o <<" ">> \o Get(content.val, "title").v)))
    ELSE content

\* The transform extractSessionArchive passes to copyDirRecursive: a session
\* document gets its title marked as imported, once, and is re-serialized.
MarkImported(content, filePath) ==
    IF Includes(filePath, <<"/", "session", "/">>) /\ EndsWith(filePath, JsonExt)
    THEN IF content.k # "json" THEN content          \* JSON.parse throws
         ELSE LET data  == content.val
                  title == Get(data, "title")
              IN  IF data.t = "null" THEN content    \* data.title throws
                  ELSE IF ~Truthy(title) THEN Stringify(data)
                  ELSE IF title.t # "str" THEN content  \* startsWith throws
                  ELSE IF StartsWith(title.v, ImportedMarker)
                  THEN Stringify(data)
                  ELSE Stringify(Set(data, "title",
                                     JStr(ImportedMarker \o <<" ">> \o title.v)))
    ELSE content

\* Mutant of CopyFile: an existing destination file is overwritten.
CopyFile_Overwrite(staged, dest, path, useTransform) ==
    Overlay(dest, TreeOf({<<path,
        IF useTransform /\ EndsWith(path, JsonExt)
        THEN MarkImported(staged[path], Join(TmpDir, path))
        ELSE staged[path]>>}))

\* copyDirRecursive, one file: skipped when the destination exists, written
\* (through the transform, for a .json file) otherwise
CopyFile(staged, dest, path, useTransform) ==
    IF fileExists(dest, path) THEN dest
    ELSE Overlay(dest, TreeOf({<<path,
            IF useTransform /\ EndsWith(path, JsonExt)
            THEN MarkImported(staged[path], Join(TmpDir, path))
            ELSE staged[path]>>}))

\* Mutant of CopyFiles: a skipped file is not counted.
RECURSIVE CopyFiles_CountWritten(_, _, _, _)
CopyFiles_CountWritten(paths, staged, dest, useTransform) ==
    IF paths = <<>> THEN [tree |-> dest, count |-> 0]
    ELSE LET rest == CopyFiles_CountWritten(Tail(paths), staged,
                        CopyFile(staged, dest, Head(paths), useTransform),
                        useTransform)
         IN  [tree  |-> rest.tree,
              count |-> rest.count
                          + (IF fileExists(dest, Head(paths)) THEN 0 ELSE 1)]

\* copyDirRecursive over the files of a directory, in readdir order: the
\* destination tree and the number of files counted
RECURSIVE CopyFiles(_, _, _, _)
CopyFiles(paths, staged, dest, useTransform) ==
    IF paths = <<>> THEN [tree |-> dest, count |-> 0]
    ELSE LET rest == CopyFiles(Tail(paths), staged,
                               CopyFile(staged, dest, Head(paths), useTransform),
                               useTransform)
         IN  [tree |-> rest.tree, count |-> rest.count + 1]

\* Mutant of copyDirRecursive: the files of the unpacked directory are copied
\* into the data directory itself, not into its directory of the same name.
copyDirRecursive_IntoDataDir(staged, dest, dir, useTransform) ==
    LET moved == [p \in {SubSeq(q, Len(dir) + 2, Len(q)) :
                           q \in FilesBelow(staged, dir)} |->
                     staged[Join(dir, p)]]
    IN  CopyFiles(SetToSeq(DOMAIN moved), moved, dest, useTransform)

copyDirRecursive(staged, dest, dir, useTransform) ==
    CopyFiles(SetToSeq(FilesBelow(staged, dir)), staged, dest, useTransform)

\* Mutant of remapAllJsonFiles: the unpacked files are left as they are.
remapAllJsonFiles_Skip(tree, old, new) == tree

\* remapAllJsonFiles: every .json file of the unpacked archive that parses is
\* rewritten with its paths remapped
remapAllJsonFiles(tree, old, new) ==
    [p \in DOMAIN tree |->
        IF EndsWith(p, JsonExt) /\ tree[p].k = "json"
        THEN Stringify(remapPaths(tree[p].val, old, new))
        ELSE tree[p]]

\* Mutant of StagedSessionFiles: any .json file of the storage tree is taken
\* for a session document.
StagedSessionFiles_AnyJson(arch) ==
    {p \in FilesBelow(arch, StorageDir) : EndsWith(p, JsonExt)}

\* The .json files in the project directories of the unpacked session index.
StagedSessionFiles(arch) ==
    LET sessionDir == RelPath(<<StorageDir, <<"session">>>>) IN
    {p \in FilesBelow(arch, sessionDir) :
        /\ EndsWith(p, JsonExt)
        /\ \E projectId \in ListDir(arch, sessionDir) :
              \E n \in ListDir(arch, Join(sessionDir, projectId)) :
                  p = Join(Join(sessionDir, projectId), n)}

Failure(kind, tree) ==
    [error |-> kind, tree |-> tree, sessionId |-> <<>>, sessionTitle |-> <<>>,
     fileCount |-> 0, pathRemapped |-> FALSE, originalPath |-> <<>>,
     newPath |-> NullPath]

extractSessionArchive(arch, dest, remapToPath) ==
    IF ~fileExists(arch, RelPath(<<StorageDir, <<"session">>>>))
    THEN Failure("ENOENT", dest)                      \* readdir(sessionDir) throws
    ELSE IF StagedSessionFiles(arch) = {}
    THEN Failure("InvalidArchive", dest)
    ELSE LET sessionPath == CHOOSE q \in StagedSessionFiles(arch) : TRUE IN
    IF arch[sessionPath].k # "json"
    THEN Failure("SyntaxError", dest)                 \* readJson throws
    ELSE LET sessionData  == arch[sessionPath].val
             sessionId    == TextOf(Get(sessionData, "id"))
             original     == TextOf(Get(sessionData, "directory"))
             doRemap      == remapToPath # <<>> /\ original # <<>>
         IN
    IF doRemap /\ ~verifyRepoPath(remapToPath)
    THEN Failure("InvalidRemapPath", dest)
    ELSE LET staged   == IF doRemap
                         THEN remapAllJsonFiles(arch, original, remapToPath)
                         ELSE arch
             storage  == IF fileExists(staged, StorageDir)
                         THEN copyDirRecursive(staged, dest, StorageDir, TRUE)
                         ELSE [tree |-> dest, count |-> 0]
             snapshot == IF fileExists(staged, SnapshotDir)
                         THEN copyDirRecursive(staged, storage.tree,
                                               SnapshotDir, FALSE)
                         ELSE [tree |-> storage.tree, count |-> 0]
             finalSessionPath ==
                 SessionFilePath(TextOf(Get(sessionData, "projectID")), sessionId)
         IN
    IF finalSessionPath \in DOMAIN snapshot.tree
          /\ snapshot.tree[finalSessionPath].k # "json"
    THEN Failure("SyntaxError", snapshot.tree)        \* re-reading the title throws
    ELSE [error        |-> "none",
          tree         |-> snapshot.tree,
          sessionId    |-> sessionId,
          sessionTitle |->
              IF finalSessionPath \in DOMAIN snapshot.tree
              THEN TextOf(Get(snapshot.tree[finalSessionPath].val, "title"))
              ELSE TextOf(Get(sessionData, "title")),
          fileCount    |-> storage.count + snapshot.count,
          pathRemapped |-> doRemap,
          originalPath |-> original,
          newPath      |-> IF doRemap THEN remapToPath ELSE NullPath]

(***************************************************************************)
(* The record stores of the archive specification                          *)
(***************************************************************************)
SessionId == <<"s1">>
ProjectId == <<"p1">>
MsgId(i)     == <<"m", ToString(i)>>
PartId(i, j) == <<"q", ToString(i), "-", ToString(j)>>

SessionDoc(id, projectId, title, directory) ==
    JObj(<< <<"id", JStr(id)>>, <<"projectID", JStr(projectId)>>,
            <<"title", JStr(title)>>, <<"directory", JStr(directory)>> >>)
MessageDoc(id, sessionId, directory) ==
    JObj(<< <<"id", JStr(id)>>, <<"sessionID", JStr(sessionId)>>,
            <<"path", JObj(<< <<"cwd", JStr(directory)>>,
                              <<"root", JStr(directory)>> >>)>> >>)
PartDoc(id, messageId, sessionId, directory) ==
    JObj(<< <<"id", JStr(id)>>, <<"messageID", JStr(messageId)>>,
            <<"sessionID", JStr(sessionId)>>,
            <<"filePath", JStr(directory \o <<"/", "src", "/", "x.ts">>)>> >>)
DiffDoc(directory) ==
    JArr(<< JObj(<< <<"file", JStr(directory \o <<"/", "src", "/", "x.ts">>)>>,
                    <<"additions", JNum(1)>> >>) >>)
ProjectDoc(id, directory) ==
    JObj(<< <<"id", JStr(id)>>, <<"worktree", JStr(directory)>> >>)

MessagePath(sessionId, i) == Join(MessageDir(sessionId), MsgId(i) \o JsonExt)
PartPath(i, j) == Join(PartDir(MsgId(i)), PartId(i, j) \o JsonExt)
\* Snapshot objects lie in the project's snapshot directory and one level down.
SnapPath(i) ==
    IF i % 2 = 1
    THEN Join(ProjectSnapshotDir(ProjectId), <<"o", ToString(i)>>)
    ELSE Join(Join(ProjectSnapshotDir(ProjectId), <<"objects">>),
              <<"o", ToString(i)>>)

\* Another session of the same project, with one message and one part.
OtherSession == <<"s2">>
OtherFiles ==
    { <<SessionFilePath(ProjectId, OtherSession),
        JsonFile(SessionDoc(OtherSession, ProjectId, <<"Other">>, RepoPath))>>,
      <<Join(MessageDir(OtherSession), <<"m", "9", ".json">>),
        JsonFile(MessageDoc(<<"m", "9">>, OtherSession, RepoPath))>>,
      <<Join(PartDir(<<"m", "9">>), <<"q", "9", ".json">>),
        JsonFile(PartDoc(<<"q", "9">>, <<"m", "9">>, OtherSession, RepoPath))>> }

\* The store of a machine that holds session s1 of project p1 with the given
\* title and directory, nMsgs messages of nParts parts each, nSnap snapshot
\* files, and the diff and project documents as the flags say.
SourceStore(title, directory, nMsgs, nParts, hasDiff, hasProject, nSnap) ==
    TreeOf(
        { <<SessionFilePath(ProjectId, SessionId),
            JsonFile(SessionDoc(SessionId, ProjectId, title, directory))>> }
        \cup { <<MessagePath(SessionId, i),
                 JsonFile(MessageDoc(MsgId(i), SessionId, directory))>> :
                 i \in 1..nMsgs }
        \cup { <<PartPath(ij[1], ij[2]),
                 JsonFile(PartDoc(PartId(ij[1], ij[2]), MsgId(ij[1]),
                                  SessionId, directory))>> :
                 ij \in (1..nMsgs) \X (1..nParts) }
        \cup (IF hasDiff
              THEN {<<SessionDiffPath(SessionId), JsonFile(DiffDoc(directory))>>}
              ELSE {})
        \cup (IF hasProject
              THEN {<<ProjectFilePath(ProjectId),
                      JsonFile(ProjectDoc(ProjectId, directory))>>}
              ELSE {})
        \cup { <<SnapPath(i), Blob(i)>> : i \in 1..nSnap }
        \cup OtherFiles)

FixBug == <<"Fix", " ", "bug">>

\* A file of the project's snapshot directory whose name ends in .json and
\* whose content parses as JSON.
SnapshotJson ==
    <<Join(ProjectSnapshotDir(ProjectId), <<"meta", ".json">>),
      JsonFile(JObj(<< <<"worktree", JStr(RepoPath)>> >>))>>

\* The <<title, directory>> of the archived session.
SessionShapes ==
    { <<FixBug, RepoPath>>,
      <<<<>>, RepoPath>>,
      <<ImportedMarker \o <<" ">> \o FixBug, RepoPath>>,
      <<FixBug, <<>>>> }

\* A destination that holds older files at paths of the archive.
OldPath == <<"/", "old">>
StaleStore ==
    TreeOf({ <<SessionFilePath(ProjectId, SessionId),
               JsonFile(SessionDoc(SessionId, ProjectId, <<"Old">>, OldPath))>>,
             <<ProjectFilePath(ProjectId),
               JsonFile(ProjectDoc(ProjectId, OldPath))>>,
             <<MessagePath(SessionId, 1),
               JsonFile(MessageDoc(MsgId(1), SessionId, OldPath))>>,
             <<SnapPath(1), Blob(0)>> })

\* What the destination holds before the first extraction: nothing, the
\* source store itself (extraction on the machine the archive was built on),
\* or older files.
DestinationStores(source) == {EmptyTree, source, StaleStore}

\* The remap targets: none, a git repository, a directory without .git.
ValidTarget == <<"/", "C", "/", "repo">>
PlainTarget == <<"/", "C", "/", "plain">>
NoTarget    == <<>>
RemapTargets == {NoTarget, ValidTarget, PlainTarget}

ArchiveFs ==
    MakeFs([q \in {ValidTarget, PlainTarget} |->
               IF q = ValidTarget THEN "git" ELSE "plain"],
           RepoPath, "absent")

Init ==
    /\ pc = "init"
    /\ RemapIdle
    /\ ResolveIdle
    /\ LaterIdle
    /\ fs = ArchiveFs
    /\ home = Home
    /\ \E shape \in SessionShapes, nMsgs \in 0..MaxMsgs, nParts \in 0..MaxParts,
          hasDiff \in BOOLEAN, hasProject \in BOOLEAN, nSnap \in 0..MaxSnap,
          extra \in {EmptyTree, TreeOf({SnapshotJson})} :
          srcStore = Overlay(SourceStore(shape[1], shape[2], nMsgs, nParts,
                                         hasDiff, hasProject, nSnap), extra)
    /\ archive = [exists |-> FALSE, tree |-> EmptyTree]
    /\ store \in DestinationStores(srcStore)
    /\ storeBefore = EmptyTree
    /\ result = NoResult
    /\ prevResult = NoResult
    /\ runs = 0

\* createSessionArchive(SessionId) on the source machine; zip -r adds the
\* staged files to the archive file.
CreateSessionArchive ==
    /\ ~archive.exists
    /\ \E info \in {collectSessionFiles(srcStore, SessionId)} :
          /\ info.found
          /\ archive' = [exists |-> TRUE,
                         tree   |-> Overlay(archive.tree,
                                            StageFiles(srcStore, info.files))]
    /\ pc' = "createSessionArchive"
    /\ UNCHANGED <<srcStore, store, storeBefore, result, prevResult, runs,
                   remapVars, resolveVars, machineVars, laterVars>>

\* extractSessionArchive(archive, {remapToPath}) on the destination machine
ExtractSessionArchive(remapToPath) ==
    /\ archive.exists
    /\ runs < MaxExtracts
    /\ \E out \in {extractSessionArchive(archive.tree, store, remapToPath)} :
          /\ store' = out.tree
          /\ result' = [error        |-> out.error,
                        sessionId    |-> out.sessionId,
                        sessionTitle |-> out.sessionTitle,
                        fileCount    |-> out.fileCount,
                        pathRemapped |-> out.pathRemapped,
                        originalPath |-> out.originalPath,
                        newPath      |-> out.newPath,
                        remapToPath  |-> remapToPath]
    /\ storeBefore' = store
    /\ prevResult' = result
    /\ runs' = runs + 1
    /\ pc' = "extractSessionArchive"
    /\ UNCHANGED <<srcStore, archive, remapVars, resolveVars, machineVars,
                   laterVars>>

Next ==
    \/ CreateSessionArchive
    \/ \E remapToPath \in RemapTargets : ExtractSessionArchive(remapToPath)

Spec == Init /\ [][Next]_vars

(***************************************************************************)
(* Claims about createSessionArchive / extractSessionArchive (under Spec)  *)
(***************************************************************************)
\* The files of the archive that lie in its storage and snapshot trees.
ArchiveTreeFiles ==
    FilesBelow(archive.tree, StorageDir) \cup FilesBelow(archive.tree, SnapshotDir)

Extracted == runs > 0
Succeeded == runs > 0 /\ result.error = "none"

ArchivedSessionPath == SessionFilePath(ProjectId, SessionId)
\* The title of the session document in the archive.
OriginalTitle == TextOf(Get(archive.tree[ArchivedSessionPath].val, "title"))
\* The directory of the session document in the archive.
ArchivedDirectory ==
    TextOf(Get(archive.tree[ArchivedSessionPath].val, "directory"))
TitleAt(tree) == TextOf(Get(tree[ArchivedSessionPath].val, "title"))

\* C1: extractSessionArchive never overwrites or deletes a destination file:
\* every file the destination held before an extraction is there with the
\* same content after it; such a file is skipped and still counted, so
\* fileCount is the number of files of the archive.
C1_NeverOverwrites ==
    Extracted =>
        /\ \A p \in DOMAIN storeBefore :
              p \in DOMAIN store /\ store[p] = storeBefore[p]
        /\ result.error = "none" =>
              result.fileCount = Cardinality(ArchiveTreeFiles)

\* C1's case: the destination held a file of the archive with other content,
\* the extraction kept it and wrote another file.
C1_Witness ==
    /\ Succeeded
    /\ \E p \in DOMAIN storeBefore \cap ArchiveTreeFiles :
          /\ storeBefore[p] # archive.tree[p]
          /\ store[p] = storeBefore[p]
    /\ DOMAIN store # DOMAIN storeBefore

\* C2 as claimed: after every successful extraction the destination's
\* session title is "[IMPORTED] " + originalTitle, whether the session file
\* was freshly written or already present.
C2_TitleMarkedAlways ==
    Succeeded => TitleAt(store) = ImportedMarker \o <<" ">> \o OriginalTitle

\* C2 as amended: a freshly written session file has the title
\* "[IMPORTED] " + originalTitle when originalTitle is non-empty and does not
\* already start with "[IMPORTED]", and originalTitle otherwise; a session
\* file present before the extraction is left as it was, so a repeated
\* extraction adds no second marker.
C2_TitleMarkedWhenWritten ==
    Succeeded =>
        IF ArchivedSessionPath \in DOMAIN storeBefore
        THEN store[ArchivedSessionPath] = storeBefore[ArchivedSessionPath]
        ELSE TitleAt(store) =
                IF OriginalTitle # <<>> /\ ~StartsWith(OriginalTitle, ImportedMarker)
                THEN ImportedMarker \o <<" ">> \o OriginalTitle
                ELSE OriginalTitle

\* C2's case: the second extraction finds the session file the first one
\* wrote, its title marked once.
C2_Witness ==
    /\ Succeeded
    /\ runs = 2
    /\ OriginalTitle = FixBug
    /\ ArchivedSessionPath \in DOMAIN storeBefore
    /\ TitleAt(storeBefore) = ImportedMarker \o <<" ">> \o FixBug
    /\ TitleAt(store) = ImportedMarker \o <<" ">> \o FixBug

\* C3: extraction is idempotent: after a successful extraction, extracting
\* the same archive again with the same options raises no error, leaves the
\* destination as it was, and reports the same fileCount, the number of files
\* of the archive.
C3_Idempotent ==
    (runs >= 2 /\ prevResult.error = "none"
        /\ result.remapToPath = prevResult.remapToPath) =>
        /\ result.error = "none"
        /\ store = storeBefore
        /\ result.fileCount = prevResult.fileCount
        /\ result.fileCount = Cardinality(ArchiveTreeFiles)

\* C3's case: a second extraction with a remap target, after a first one
\* that wrote the archive's files.
C3_Witness ==
    /\ runs = 2
    /\ prevResult.error = "none"
    /\ result.error = "none"
    /\ result.remapToPath = ValidTarget
    /\ prevResult.remapToPath = ValidTarget
    /\ result.fileCount > 3
    /\ ArchiveTreeFiles \subseteq DOMAIN storeBefore

\* The documents of the source store that belong to the archived session, by
\* their sessionID field (messages and parts), and the snapshot files of its
\* project.
Owned(dir) ==
    {p \in FilesBelow(srcStore, RelPath(<<StorageDir, dir>>)) :
        TextOf(Get(srcStore[p].val, "sessionID")) = SessionId}
NumMessages  == Cardinality(Owned(<<"message">>))
NumParts     == Cardinality(Owned(<<"part">>))
NumSnapshots == Cardinality(FilesBelow(srcStore, ProjectSnapshotDir(ProjectId)))
HasDiff      == SessionDiffPath(SessionId) \in DOMAIN srcStore
HasProject   == ProjectFilePath(ProjectId) \in DOMAIN srcStore
RoundTrip    == Succeeded /\ runs = 1 /\ storeBefore = EmptyTree

\* C4 as claimed: extracting a built archive into an empty store reports
\* fileCount = N + M + (1 if a diff document exists) + 1 + 1 + S.
C4_RoundTripCountFixed ==
    RoundTrip =>
        result.fileCount = NumMessages + NumParts + (IF HasDiff THEN 1 ELSE 0)
                             + 1 + 1 + NumSnapshots

\* C4 as amended: the project document is counted only if the source store
\* holds one: fileCount = N + M + (1 if a diff document exists) + 1 (session)
\* + (1 if the project document exists) + S.
C4_RoundTripCount ==
    RoundTrip =>
        result.fileCount = NumMessages + NumParts + (IF HasDiff THEN 1 ELSE 0)
                             + 1 + (IF HasProject THEN 1 ELSE 0) + NumSnapshots

\* C4's case: a session with two messages with parts, a diff, a project
\* and snapshot files goes through build and extraction.
C4_Witness ==
    /\ RoundTrip
    /\ NumMessages = 2
    /\ NumParts >= 2
    /\ HasDiff
    /\ HasProject
    /\ NumSnapshots = 2
    /\ result.fileCount = NumMessages + NumParts + 5

\* An existing directory that contains a .git directory.
GitRepository(path) == path \in fs.dirs /\ (path \o <<"/", ".", "git">>) \in fs.dirs

\* C7 as claimed: when the remap target passed is not an existing directory
\* with a .git directory, the extraction fails with the invalid-remap-path
\* error and the destination is left exactly as it was.
C7_InvalidRemapAborts ==
    (Extracted /\ result.remapToPath # NoTarget
        /\ ~GitRepository(result.remapToPath)) =>
        /\ result.error = "InvalidRemapPath"
        /\ store = storeBefore

\* C7 as amended: the same, for an archive whose session document has a
\* non-empty directory (without one the remap target is not looked at).
C7_InvalidRemapAbortsWithDirectory ==
    (Extracted /\ result.remapToPath # NoTarget
        /\ ~GitRepository(result.remapToPath)
        /\ ArchivedDirectory # <<>>) =>
        /\ result.error = "InvalidRemapPath"
        /\ store = storeBefore

\* C7's case: an extraction that would have written files fails on a remap
\* target that is a directory without .git.
C7_Witness ==
    /\ Extracted
    /\ result.remapToPath = PlainTarget
    /\ result.error = "InvalidRemapPath"
    /\ ~(ArchiveTreeFiles \subseteq DOMAIN store)
    /\ store = storeBefore

(***************************************************************************)
(* session-archive.ts createSessionArchive: the archive id                 *)
(*                                                                         *)
(* A title is text whose tokens are words of letters and digits ("Fix",    *)
(* "bug", "7") or single characters that are neither (" ", "-", "!").      *)
(***************************************************************************)
\* String.prototype.toLowerCase, token by token
LowerToken(c) ==
    CASE c = "Fix" -> "fix"
      [] c = "BUG" -> "bug"
      [] OTHER     -> c
toLowerCase(str) == [i \in 1..Len(str) |-> LowerToken(str[i])]

\* The character class [a-z0-9] of toKebabCase's first pattern.
LowerAlnum(c) == c \in {"fix", "bug", "7", "untitled"}

\* .replace(/[^a-z0-9]+/g, "-"): every maximal run of other characters
\* becomes one hyphen
RECURSIVE ReplaceOtherRuns(_)
ReplaceOtherRuns(str) ==
    IF str = <<>> THEN <<>>
    ELSE IF LowerAlnum(Head(str)) THEN <<Head(str)>> \o ReplaceOtherRuns(Tail(str))
    ELSE IF Len(str) > 1 /\ ~LowerAlnum(str[2]) THEN ReplaceOtherRuns(Tail(str))
    ELSE <<"-">> \o ReplaceOtherRuns(Tail(str))

\* .replace(/^-+|-+$/g, ""): the hyphens at both ends removed
RECURSIVE TrimHyphens(_)
TrimHyphens(str) ==
    IF str = <<>> THEN <<>>
    ELSE IF Head(str) = "-" THEN TrimHyphens(Tail(str))
    ELSE IF str[Len(str)] = "-" THEN TrimHyphens(SubSeq(str, 1, Len(str) - 1))
    ELSE str

\* .replace(/-+/g, "-"): every run of hyphens becomes one hyphen
RECURSIVE CollapseHyphens(_)
CollapseHyphens(str) ==
    IF Len(str) < 2 THEN str
    ELSE IF str[1] = "-" /\ str[2] = "-" THEN CollapseHyphens(Tail(str))
    ELSE <<Head(str)>> \o CollapseHyphens(Tail(str))

\* Mutant of toKebabCase: the ends are not trimmed.
toKebabCase_NoTrim(str) == CollapseHyphens(ReplaceOtherRuns(toLowerCase(str)))

toKebabCase(str) ==
    CollapseHyphens(TrimHyphens(ReplaceOtherRuns(toLowerCase(str))))

Untitled == <<"untitled">>

\* `${dateStr}-${toKebabCase(info.title || "untitled")}`
ArchiveId(dateStr, title) ==
    dateStr \o <<"-">> \o toKebabCase(IF title = <<>> THEN Untitled ELSE title)

(***************************************************************************)
(* session-archive.ts createSessionArchive: collecting, staging, zipping   *)
(***************************************************************************)
\* Mutant of CollectOutcome: a message without a part directory is an error.
CollectOutcome_PartsRequired(tree, sessionId) ==
    LET info == collectSessionFiles(tree, sessionId) IN
    IF ~info.found
          \/ \E i \in 1..Len(info.files) :
                /\ info.files[i].type = "message"
                /\ ~fileExists(tree,
                       PartDir(TextOf(Get(tree[info.files[i].relativePath].val, "id"))))
    THEN [error |-> "NotFound", info |-> NoInfo]
    ELSE [error |-> "none", info |-> info]

\* collectSessionFiles as called: the not-found error, the SyntaxError of
\* readJson on a session or message file that does not parse, or the info.
CollectOutcome(tree, sessionId) ==
    LET info == collectSessionFiles(tree, sessionId) IN
    IF ~info.found THEN [error |-> "NotFound", info |-> NoInfo]
    ELSE IF \E i \in 1..Len(info.files) :
               /\ info.files[i].type \in {"session", "message"}
               /\ tree[info.files[i].relativePath].k # "json"
    THEN [error |-> "SyntaxError", info |-> NoInfo]
    ELSE [error |-> "none", info |-> info]

\* join(tmpdir(), `opencode-archive-${Date.now()}`)
StagingDir == <<"/", "tmp", "/", "opencode-archive">>

\* mkdir(dir, {recursive: true})
MkDir(dirs, dir) ==
    [d \in DOMAIN dirs \cup {dir} |-> IF d \in DOMAIN dirs THEN dirs[d] ELSE EmptyTree]

\* Mutant of RmDir: the directory is left in place.
RmDir_Keep(dirs, dir) == dirs

\* rm(dir, {recursive: true, force: true})
RmDir(dirs, dir) == [d \in DOMAIN dirs \ {dir} |-> dirs[d]]

\* Mutant of Zip: the archive file is written anew.
Zip_Replace(arcs, archiveId, staged) ==
    [a \in DOMAIN arcs \cup {archiveId} |->
        IF a = archiveId THEN staged ELSE arcs[a]]

\* `zip -r archivePath .` in the staging directory: the staged files are
\* added to the zip file at archivePath, which is created if it does not
\* exist and updated in place if it does.
Zip(arcs, archiveId, staged) ==
    [a \in DOMAIN arcs \cup {archiveId} |->
        IF a # archiveId THEN arcs[a]
        ELSE IF a \in DOMAIN arcs THEN Overlay(arcs[a], staged)
        ELSE staged]

\* Mutant of createSessionArchive: a failure of the copy loop is swallowed and
\* the files staged so far are compressed.
createSessionArchive_ZipAnyway(tree, arcs, dirs, sessionId, dateStr, fault) ==
    LET outcome == CollectOutcome(tree, sessionId) IN
    IF outcome.error # "none"
    THEN [error |-> outcome.error, archiveId |-> <<>>, info |-> NoInfo,
          archives |-> arcs, tmp |-> dirs]
    ELSE LET info      == outcome.info
             archiveId == ArchiveId(dateStr, info.title)
             nCopied   == IF fault = "readFile" THEN Len(info.files) - 1
                          ELSE Len(info.files)
             staged    == StageFiles(tree, SubSeq(info.files, 1, nCopied))
         IN  IF fault = "zip"
             THEN [error |-> "zip", archiveId |-> <<>>, info |-> NoInfo,
                   archives |-> arcs, tmp |-> dirs]
             ELSE [error |-> IF fault = "readFile" THEN "EACCES" ELSE "none",
                   archiveId |-> IF fault = "readFile" THEN <<>> ELSE archiveId,
                   info |-> IF fault = "readFile" THEN NoInfo ELSE info,
                   archives |-> Zip(arcs, archiveId, staged),
                   tmp |-> dirs]

\* createSessionArchive(sessionId) on the date dateStr.  fault is what the
\* machine does to the call: "none", "readFile" (reading the last collected
\* file fails) or "zip" (the zip command exits with an error).
createSessionArchive(tree, arcs, dirs, sessionId, dateStr, fault) ==
    LET outcome == CollectOutcome(tree, sessionId) IN
    IF outcome.error # "none"
    THEN [error |-> outcome.error, archiveId |-> <<>>, info |-> NoInfo,
          archives |-> arcs, tmp |-> dirs]
    ELSE LET info      == outcome.info
             archiveId == ArchiveId(dateStr, info.title)
             made      == MkDir(dirs, StagingDir)
             nCopied   == IF fault = "readFile" THEN Len(info.files) - 1
                          ELSE Len(info.files)
             staged    == StageFiles(tree, SubSeq(info.files, 1, nCopied))
             filled    == [made EXCEPT ![StagingDir] = staged]
         IN  IF fault = "readFile"
             THEN [error |-> "EACCES", archiveId |-> <<>>, info |-> NoInfo,
                   archives |-> arcs, tmp |-> RmDir(filled, StagingDir)]
             ELSE IF fault = "zip"
             THEN [error |-> "zip", archiveId |-> <<>>, info |-> NoInfo,
                   archives |-> arcs, tmp |-> RmDir(filled, StagingDir)]
             ELSE [error |-> "none", archiveId |-> archiveId, info |-> info,
                   archives |-> Zip(arcs, archiveId, staged),
                   tmp |-> RmDir(filled, StagingDir)]

(***************************************************************************)
(* The archive builder specification                                       *)
(***************************************************************************)
\* Longest session title, in tokens.
MaxTitle == 3

TitleTokens == {"Fix", "bug", " ", "-"}
Titles == SeqsUpTo(TitleTokens, MaxTitle)

\* The records of one session of project p1: the session document, the
\* messages numbered msgs with nParts parts each, the diff if hasDiff.
SessionRecords(sessionId, title, msgs, nParts, hasDiff) ==
    { <<SessionFilePath(ProjectId, sessionId),
        JsonFile(SessionDoc(sessionId, ProjectId, title, RepoPath))>> }
    \cup { <<MessagePath(sessionId, i),
             JsonFile(MessageDoc(MsgId(i), sessionId, RepoPath))>> : i \in msgs }
    \cup { <<PartPath(ij[1], ij[2]),
             JsonFile(PartDoc(PartId(ij[1], ij[2]), MsgId(ij[1]),
                              sessionId, RepoPath))>> :
             ij \in msgs \X (1..nParts) }
    \cup (IF hasDiff
          THEN {<<SessionDiffPath(sessionId), JsonFile(DiffDoc(RepoPath))>>}
          ELSE {})

ProjectRecords(hasProject, nSnap) ==
    (IF hasProject
     THEN {<<ProjectFilePath(ProjectId), JsonFile(ProjectDoc(ProjectId, RepoPath))>>}
     ELSE {})
    \cup { <<SnapPath(i), Blob(i)>> : i \in 1..nSnap }

\* A message file that does not parse, in the message directory of s1.
BrokenMessage == <<Join(MessageDir(SessionId), <<"broken", ".json">>), Blob(7)>>
\* A file of the message directory of s1 that is no .json file.
StrayFile == <<Join(MessageDir(SessionId), <<"notes", ".txt">>), Blob(8)>>

SecondMsg == MaxMsgs + 5

\* The stores the builder runs on: a lone session under every title; the
\* session "Fix bug" in every shape beside a second session whose title has
\* the same slug; one shape with a second session of another slug, with a
\* message file that does not parse, with a stray file; the empty store.
BuildStores ==
    { TreeOf(SessionRecords(SessionId, t, {}, 0, FALSE)) : t \in Titles }
    \cup
    { TreeOf(SessionRecords(SessionId, FixBug, 1..c[1], c[2], c[3])
             \cup SessionRecords(OtherSession, <<"Fix", "!", "BUG">>,
                                 {SecondMsg}, 1, FALSE)
             \cup ProjectRecords(c[4], c[5])) :
        c \in (0..MaxMsgs) \X (0..MaxParts) \X BOOLEAN \X BOOLEAN \X (0..MaxSnap) }
    \cup
    { TreeOf(SessionRecords(SessionId, FixBug, {1}, 1, TRUE)
             \cup SessionRecords(OtherSession, <<"bug">>, {SecondMsg}, 1, FALSE)
             \cup ProjectRecords(TRUE, 1) \cup extra) :
        extra \in {{}, {BrokenMessage}, {StrayFile}} }
    \cup {EmptyTree}

Dates == <<(<<"2025-01-15">>), (<<"2025-01-16">>)>>
MissingSession == <<"s9">>
SessionIds == {SessionId, OtherSession, MissingSession}
Faults == {"none", "readFile", "zip"}

InitBuild ==
    /\ pc = "init"
    /\ RemapIdle
    /\ ResolveIdle
    /\ fs = NoFs
    /\ home = <<>>
    /\ srcStore \in BuildStores
    /\ archive = [exists |-> FALSE, tree |-> NoTree]
    /\ store = NoTree
    /\ storeBefore = NoTree
    /\ result = NoResult
    /\ prevResult = NoResult
    /\ runs = 0
    /\ archives = <<>>
    /\ tmp = <<>>
    /\ today = Dates[1]
    /\ built = NoBuild
    /\ CrashIdle
    /\ IngestIdle
    /\ ConcIdle
    /\ SortIdle

\* createSessionArchive(sessionId), with what the machine does to it
BuildArchive(sessionId, fault) ==
    /\ \E out \in {createSessionArchive(srcStore, archives, tmp, sessionId,
                                        today, fault)} :
          /\ archives' = out.archives
          /\ tmp' = out.tmp
          /\ built' = [error |-> out.error, sessionId |-> sessionId,
                       archiveId |-> out.archiveId, info |-> out.info,
                       date |-> today,
                       updated |-> out.error = "none"
                                     /\ out.archiveId \in DOMAIN archives]
    /\ pc' = "createSessionArchive"
    /\ UNCHANGED <<today, crashVars, ingestVars, concVars, sortVars, remapVars, resolveVars, machineVars,
                   archiveVars>>

\* Midnight (UTC) passes.
NextDay ==
    /\ today = Dates[1]
    /\ today' = Dates[2]
    /\ pc' = "nextDay"
    /\ UNCHANGED <<archives, tmp, built, crashVars, ingestVars, concVars, sortVars, remapVars, resolveVars,
                   machineVars, archiveVars>>

NextBuild ==
    \/ \E sessionId \in SessionIds, fault \in Faults : BuildArchive(sessionId, fault)
    \/ NextDay

SpecBuild == InitBuild /\ [][NextBuild]_vars

(***************************************************************************)
(* Claims about collectSessionFiles / createSessionArchive (SpecBuild)     *)
(***************************************************************************)
Built    == built.error # "not called"
BuiltOk  == built.error = "none"
\* The paths and the types of the files the last build collected.
CollectedPaths ==
    {built.info.files[i].relativePath : i \in 1..Len(built.info.files)}
CollectedTypes ==
    {built.info.files[i].type : i \in 1..Len(built.info.files)}

\* A file <sessionId>.json lies in a project subdirectory of the session
\* index of the source store.
SessionExists(sessionId) ==
    \E p \in DOMAIN srcStore :
        /\ StartsWith(p, <<"storage", "/", "session", "/">>)
        /\ EndsWith(p, <<"/">> \o sessionId \o <<".json">>)
        /\ Len(p) = 4 + 1 + 1 + Len(sessionId) + 1

\* The .json files in the message directory of the session.
MessagesOf(sessionId) ==
    {p \in DOMAIN srcStore :
        /\ StartsWith(p, <<"storage", "/", "message", "/">> \o sessionId \o <<"/">>)
        /\ EndsWith(p, <<".json">>)}
\* The files in the part directory of the message whose file is p.
PartsOf(p) ==
    {q \in DOMAIN srcStore :
        StartsWith(q, <<"storage", "/", "part", "/">>
                        \o TextOf(Get(srcStore[p].val, "id")) \o <<"/">>)}

\* C11: collectSessionFiles fails with the not-found error exactly when no
\* file <sessionId>.json lies in a project subdirectory of the session index;
\* with the session present and no message directory, or a message without a
\* part directory, the collection does not fail.
C11_NotFoundIffNoSessionFile ==
    Built =>
        /\ built.error = "NotFound" <=> ~SessionExists(built.sessionId)
        /\ (/\ SessionExists(built.sessionId)
            /\ \/ MessagesOf(built.sessionId) = {}
               \/ \E p \in MessagesOf(built.sessionId) :
                     srcStore[p].k = "json" /\ PartsOf(p) = {})
           => built.error \notin {"NotFound", "SyntaxError"}

\* C11's case: the store holds sessions, none with the id asked for.
C11_Witness ==
    /\ built.error = "NotFound"
    /\ built.sessionId = MissingSession
    /\ SessionExists(SessionId)

\* C12 as claimed: for a session with zero messages the collected files are
\* session, project and diff entries only.
C12_OnlySessionProjectDiff ==
    (BuiltOk /\ MessagesOf(built.sessionId) = {}) =>
        CollectedTypes \subseteq {"session", "project", "session_diff"}

\* C12 as amended: for a session with zero messages the collected files are
\* the session file, the project file and the diff file where they exist,
\* and the files of the project's snapshot directory; no message, no part.
C12_NoMessageNoPart ==
    (BuiltOk /\ MessagesOf(built.sessionId) = {}) =>
        /\ CollectedTypes \subseteq {"session", "project", "session_diff", "snapshot"}
        /\ CollectedPaths =
              ({SessionFilePath(ProjectId, built.sessionId),
                ProjectFilePath(ProjectId), SessionDiffPath(built.sessionId)}
                 \cap DOMAIN srcStore)
              \cup FilesBelow(srcStore, ProjectSnapshotDir(ProjectId))

\* C12's case: a session without messages, with a diff, a project document
\* and snapshot files, beside a session that has a message with a part.
C12_Witness ==
    /\ BuiltOk
    /\ built.sessionId = SessionId
    /\ MessagesOf(SessionId) = {}
    /\ MessagesOf(OtherSession) # {}
    /\ CollectedTypes = {"session", "project", "session_diff", "snapshot"}

\* A token of letters and digits.
WordToken(c) == c \in {"Fix", "BUG", "fix", "bug", "7"}

\* The words of a title: its maximal runs of letters and digits, lower-cased.
RECURSIVE WordsOf(_, _)
WordsOf(str, word) ==
    IF str = <<>> THEN (IF word = <<>> THEN <<>> ELSE <<word>>)
    ELSE IF WordToken(Head(str))
    THEN WordsOf(Tail(str), word \o <<LowerToken(Head(str))>>)
    ELSE (IF word = <<>> THEN <<>> ELSE <<word>>) \o WordsOf(Tail(str), <<>>)

\* The words joined by single hyphens.
RECURSIVE Hyphenated(_)
Hyphenated(words) ==
    IF words = <<>> THEN <<>>
    ELSE IF Len(words) = 1 THEN words[1]
    ELSE words[1] \o <<"-">> \o Hyphenated(Tail(words))

\* The part of the archive id after the date and its hyphen.
SlugOfId == SubSeq(built.archiveId, Len(built.date) + 2, Len(built.archiveId))

WellFormedSlug(slug) ==
    /\ \A i \in 1..Len(slug) : LowerAlnum(slug[i]) \/ slug[i] = "-"
    /\ slug # <<>> => slug[1] # "-" /\ slug[Len(slug)] # "-"
    /\ \A i \in 1..(Len(slug) - 1) : ~(slug[i] = "-" /\ slug[i + 1] = "-")

\* C13 as claimed: the archive id is <date>-<slug>, the slug being the title
\* lower-cased, its runs of other characters collapsed to single hyphens, the
\* hyphens at its ends removed; the slug holds only [a-z0-9-], does not start
\* or end with a hyphen and has no two adjacent hyphens.
C13_ArchiveIdFromTitle ==
    BuiltOk =>
        /\ built.archiveId =
              built.date \o <<"-">> \o Hyphenated(WordsOf(built.info.title, <<>>))
        /\ WellFormedSlug(SlugOfId)

\* C13 as amended: the same for a non-empty title; an empty title gives the
\* slug "untitled".
C13_ArchiveIdFromTitleOrUntitled ==
    BuiltOk =>
        /\ built.archiveId =
              built.date \o <<"-">> \o
                 (IF built.info.title = <<>> THEN <<"untitled">>
                  ELSE Hyphenated(WordsOf(built.info.title, <<>>)))
        /\ WellFormedSlug(SlugOfId)

\* C13's case: "Fix bug" archived on 2025-01-15.
C13_Witness ==
    /\ BuiltOk
    /\ built.info.title = <<"Fix", " ", "bug">>
    /\ built.date = <<"2025-01-15">>
    /\ built.archiveId = <<"2025-01-15", "-", "fix", "-", "bug">>

\* C14: when the archive id of a build equals that of an archive already in
\* the archive directory, the archive file afterwards holds exactly the files
\* collected for this build.
C14_CollisionOverwrites ==
    (BuiltOk /\ built.updated) =>
        /\ DOMAIN archives[built.archiveId] = CollectedPaths
        /\ \A p \in CollectedPaths : archives[built.archiveId][p] = srcStore[p]

\* C15: the staging directory does not exist once createSessionArchive has
\* returned or thrown.
C15_StagingRemoved ==
    Built => StagingDir \notin DOMAIN tmp

\* C15's case: the zip command failed after the files were staged.
C15_Witness ==
    /\ built.error = "zip"
    /\ SessionExists(built.sessionId)
    /\ StagingDir \notin DOMAIN tmp

(***************************************************************************)
(* Interrupted extraction (SpecCrash)                                      *)
(*                                                                         *)
(* The process is killed while extractSessionArchive merges the unpacked   *)
(* files into the store: after some files were written completely and,     *)
(* possibly, while the next one was being written.  writeFile creates the  *)
(* file and then writes its bytes, so a file whose write was interrupted   *)
(* exists with a prefix of its content.                                    *)
(***************************************************************************)
\* A file that holds a prefix of its intended bytes.
Torn == [k |-> "raw", fmt |-> "torn", val |-> JNum(0)]

\* The files copyDirRecursive visits, in order: the storage tree (through
\* the transform), then the snapshot tree.
MergeOrder(staged) ==
    LET storage  == SetToSeq(FilesBelow(staged, StorageDir))
        snapshot == SetToSeq(FilesBelow(staged, SnapshotDir))
    IN  [i \in 1..(Len(storage) + Len(snapshot)) |->
            IF i <= Len(storage)
            THEN [path |-> storage[i], useTransform |-> TRUE]
            ELSE [path |-> snapshot[i - Len(storage)], useTransform |-> FALSE]]

\* The destination after the first n files of the merge were handled.
RECURSIVE MergePrefix(_, _, _, _)
MergePrefix(order, staged, dest, n) ==
    IF n = 0 THEN dest
    ELSE CopyFile(staged, MergePrefix(order, staged, dest, n - 1),
                  order[n].path, order[n].useTransform)

\* extractSessionArchive killed during the merge, after n files; torn tells
\* whether the write of the next file had begun.
interruptedExtract(arch, dest, remapToPath, n, torn) ==
    LET original == TextOf(Get(arch[CHOOSE q \in StagedSessionFiles(arch) : TRUE].val,
                               "directory"))
        staged   == IF remapToPath # <<>> /\ original # <<>>
                    THEN remapAllJsonFiles(arch, original, remapToPath)
                    ELSE arch
        order    == MergeOrder(staged)
        done     == MergePrefix(order, staged, dest, n)
    IN  IF torn /\ n < Len(order) /\ ~fileExists(done, order[n + 1].path)
        THEN Overlay(done, TreeOf({<<order[n + 1].path, Torn>>}))
        ELSE done

Killed(remapToPath, torn) ==
    [error |-> "killed", sessionId |-> <<>>, sessionTitle |-> <<>>,
     fileCount |-> 0, pathRemapped |-> FALSE, originalPath |-> <<>>,
     newPath |-> <<>>, remapToPath |-> remapToPath, torn |-> torn]

\* The source stores of the crash specification: "Fix bug" in RepoPath with
\* a diff and a project document.
InitCrash ==
    /\ pc = "init"
    /\ RemapIdle
    /\ ResolveIdle
    /\ LaterIdle
    /\ fs = ArchiveFs
    /\ home = Home
    /\ \E nMsgs \in 0..MaxMsgs, nSnap \in 0..MaxSnap :
          srcStore = SourceStore(FixBug, RepoPath, nMsgs, MaxParts, TRUE, TRUE, nSnap)
    /\ archive = [exists |-> FALSE, tree |-> EmptyTree]
    /\ store \in DestinationStores(srcStore)
    /\ storeBefore = EmptyTree
    /\ result = NoResult
    /\ prevResult = NoResult
    /\ runs = 0

\* extractSessionArchive(archive, {remapToPath}), the process killed during
\* the merge
ExtractInterrupted(remapToPath, torn) ==
    /\ archive.exists
    /\ runs < MaxExtracts
    /\ extractSessionArchive(archive.tree, store, remapToPath).error = "none"
    /\ \E n \in 0..Cardinality(DOMAIN archive.tree) :
          store' = interruptedExtract(archive.tree, store, remapToPath, n, torn)
    /\ crashBase' = store
    /\ storeBefore' = store
    /\ prevResult' = result
    /\ result' = Killed(remapToPath, torn)
    /\ runs' = runs + 1
    /\ pc' = "killed"
    /\ UNCHANGED <<srcStore, archive, remapVars, resolveVars, machineVars,
                   buildVars, ingestVars, concVars, sortVars>>

NextCrash ==
    \/ CreateSessionArchive
    \/ \E remapToPath \in RemapTargets, torn \in BOOLEAN :
          ExtractInterrupted(remapToPath, torn)
    \/ \E remapToPath \in RemapTargets : ExtractSessionArchive(remapToPath)

SpecCrash == InitCrash /\ [][NextCrash]_vars

\* An extraction with the options of the interrupted one has run after it.
Resumed ==
    /\ runs >= 2
    /\ prevResult.error = "killed"
    /\ result.error # "killed"
    /\ result.remapToPath = prevResult.remapToPath

\* What one uninterrupted extraction makes of the store the interrupted one
\* started on.
Uninterrupted ==
    extractSessionArchive(archive.tree, crashBase, result.remapToPath).tree

\* C16: when an extraction is interrupted during the merge, between or
\* during file writes, and run again on the same archive with the same
\* options, the store ends as one uninterrupted extraction leaves it.
C16_CrashResume ==
    Resumed => result.error = "none" /\ store = Uninterrupted

\* C16 restricted to interruptions between file writes.
C16_ResumeBetweenWrites ==
    (Resumed /\ ~prevResult.torn) => result.error = "none" /\ store = Uninterrupted

\* C16's case: resumed after an interruption that had written some of the
\* archive's files and not all of them.
C16_Witness ==
    /\ Resumed
    /\ ~prevResult.torn
    /\ storeBefore # crashBase
    /\ ~(DOMAIN archive.tree \subseteq DOMAIN storeBefore)
    /\ store = Uninterrupted

\* C17: every file of the archive's snapshot tree that an extraction newly
\* writes to the destination is byte for byte the file of the archive, with
\* or without a remap target.
C17_SnapshotsOpaque ==
    Succeeded =>
        \A p \in FilesBelow(archive.tree, SnapshotDir) :
            p \notin DOMAIN storeBefore => store[p] = archive.tree[p]

\* C17 restricted to snapshot files whose names do not end in .json.
C17_NonJsonSnapshotsOpaque ==
    Succeeded =>
        \A p \in FilesBelow(archive.tree, SnapshotDir) :
            (p \notin DOMAIN storeBefore /\ ~EndsWith(p, JsonExt))
                => store[p] = archive.tree[p]

(***************************************************************************)
(* ingest-session.ts: private shares written into the record store         *)
(*                                                                         *)
(* A private share is a JSON file {id, sessionID, createdAt, data} whose   *)
(* data is an array of {type, data} entries.                               *)
(***************************************************************************)
\* join(PRIVATE_SHARES_DIR, `${shareId}.json`) as a name in the directory
resolveShareFilePath(shareId) == shareId \o JsonExt

\* file.replace(".json", "")
ShareIdOf(file) == Replace(file, JsonExt, <<>>)

\* The entries of privateShare.data of the given type, in order.
EntriesOfType(share, type) ==
    SelectSeq(Get(share, "data").v, LAMBDA e : Get(e, "type") = JStr(<<type>>))

\* privateShare.data.find((d) => d.type === type): NoValue when there is none
FindEntry(share, type) ==
    IF EntriesOfType(share, type) = <<>> THEN NoValue
    ELSE Head(EntriesOfType(share, type))

\* path-utils.ts extractOriginalPath: NoValue stands for null
extractOriginalPath(privateShareData) ==
    IF privateShareData.t # "obj" THEN NoValue
    ELSE IF Get(privateShareData, "data").t # "arr" THEN NoValue
    ELSE LET sessionEntry == FindEntry(privateShareData, "session")
         IN  IF Get(Get(sessionEntry, "data"), "directory").t = "null"
             THEN NoValue
             ELSE Get(Get(sessionEntry, "data"), "directory")

\* path-utils.ts getProjectName: basename
getProjectName(projectPath) ==
    LET cuts == {i \in 1..Len(projectPath) : projectPath[i] = "/"}
    IN  IF cuts = {} THEN projectPath
        ELSE SubSeq(projectPath, (CHOOSE i \in cuts : \A j \in cuts : j <= i) + 1,
                    Len(projectPath))

\* ingest-session.ts listSessions: one <<shareId, title>> per .json file, the
\* title "Unknown" for a file that does not parse or has no session title
listSessions(dir) ==
    LET files == SetToSeq({f \in DOMAIN dir : EndsWith(f, JsonExt)})
    IN  [i \in 1..Len(files) |->
            <<ShareIdOf(files[i]),
              IF dir[files[i]].k = "json"
                    /\ Get(dir[files[i]].val, "data").t = "arr"
                    /\ Get(Get(FindEntry(dir[files[i]].val, "session"), "data"),
                           "title").t = "str"
              THEN Get(Get(FindEntry(dir[files[i]].val, "session"), "data"),
                       "title").v
              ELSE <<"Unknown">> >>]

\* ingest-session.ts analyzeSession: the error thrown, or the analysis
analyzeSession(dir, shareId) ==
    LET filePath == resolveShareFilePath(shareId)
        failed(e) == [error |-> e, originalPath |-> <<>>, projectName |-> <<>>,
                      pathResolution |-> NoResolution]
    IN  IF filePath \notin DOMAIN dir THEN failed("ENOENT")
        ELSE IF dir[filePath].k # "json" THEN failed("SyntaxError")
        ELSE IF Get(dir[filePath].val, "data").t # "arr" THEN failed("TypeError")
        ELSE LET original == extractOriginalPath(dir[filePath].val) IN
             IF ~Truthy(original) THEN failed("NoOriginalPath")
             ELSE [error          |-> "none",
                   originalPath   |-> original.v,
                   projectName    |-> getProjectName(original.v),
                   pathResolution |-> resolveProjectPath(original.v,
                                         getProjectName(original.v))]

\* writeJson(path, data): the file written anew, an existing one replaced
writeJson(tree, path, data) == Overlay(tree, TreeOf({<<path, Stringify(data)>>}))

\* Mutant of writeProject: the project document is written unconditionally.
writeProject_Overwrite(tree, projectData) ==
    writeJson(tree, ProjectFilePath(TextOf(Get(projectData, "id"))), projectData)

\* ingest-session.ts writeProject: written only if no such file exists
writeProject(tree, projectData) ==
    LET projectFile == ProjectFilePath(TextOf(Get(projectData, "id")))
    IN  IF fileExists(tree, projectFile) THEN tree
        ELSE writeJson(tree, projectFile, projectData)

\* Mutant of writeSession: a session document that replaces an existing one
\* gets the title of the existing one, marked once more.
writeSession_MarkStored(tree, session) ==
    LET path == SessionFilePath(TextOf(Get(session, "projectID")),
                                TextOf(Get(session, "id")))
    IN  writeJson(tree, path,
            IF path \in DOMAIN tree
            THEN Set(session, "title",
                     JStr(ImportedMarker \o <<" ">>
                            \o TextOf(Get(tree[path].val, "title"))))
            ELSE session)

writeSession(tree, session) ==
    writeJson(tree, SessionFilePath(TextOf(Get(session, "projectID")),
                                    TextOf(Get(session, "id"))), session)

writeMessage(tree, message) ==
    writeJson(tree, Join(MessageDir(TextOf(Get(message, "sessionID"))),
                         TextOf(Get(message, "id")) \o JsonExt), message)

writePart(tree, part) ==
    writeJson(tree, Join(PartDir(TextOf(Get(part, "messageID"))),
                         TextOf(Get(part, "id")) \o JsonExt), part)

writeSessionDiff(tree, sessionID, diffs) ==
    writeJson(tree, SessionDiffPath(sessionID), diffs)

\* for (const entry of messageEntries) await writeMessage(entry.data)
RECURSIVE WriteMessages(_, _)
WriteMessages(tree, entries) ==
    IF entries = <<>> THEN tree
    ELSE WriteMessages(writeMessage(tree, Get(Head(entries), "data")), Tail(entries))

\* for (const entry of partEntries) await writePart(entry.data)
RECURSIVE WriteParts(_, _)
WriteParts(tree, entries) ==
    IF entries = <<>> THEN tree
    ELSE WriteParts(writePart(tree, Get(Head(entries), "data")), Tail(entries))

\* {...o, [key]: value}
With(o, key, value) ==
    IF \E i \in 1..Len(o.v) : o.v[i][1] = key THEN Set(o, key, value)
    ELSE JObj(Append(o.v, <<key, value>>))

IngestFailure(kind, tree) ==
    [error |-> kind, tree |-> tree, sessionId |-> <<>>, sessionTitle |-> <<>>,
     messageCount |-> 0, partCount |-> 0, pathRemapped |-> FALSE,
     originalPath |-> <<>>, newPath |-> NullPath]

\* ingest-session.ts ingestSession(shareId, {remapToPath})
ingestSession(dir, tree, shareId, remapToPath) ==
    LET filePath == resolveShareFilePath(shareId) IN
    IF filePath \notin DOMAIN dir THEN IngestFailure("ENOENT", tree)
    ELSE IF dir[filePath].k # "json" THEN IngestFailure("SyntaxError", tree)
    ELSE LET original == extractOriginalPath(dir[filePath].val)
             doRemap  == remapToPath # <<>> /\ Truthy(original)
         IN
    IF doRemap /\ ~verifyRepoPath(remapToPath)
    THEN IngestFailure("InvalidRemapPath", tree)
    ELSE LET privateShare == IF doRemap
                             THEN remapPaths(dir[filePath].val, original.v,
                                             remapToPath)
                             ELSE dir[filePath].val
         IN
    IF Get(privateShare, "data").t # "arr" THEN IngestFailure("TypeError", tree)
    ELSE IF FindEntry(privateShare, "session") = NoValue
    THEN IngestFailure("NoSessionData", tree)
    ELSE LET data    == Get(FindEntry(privateShare, "session"), "data")
             session == With(data, "title",
                             JStr(ImportedMarker \o <<" ">> \o TextOf(Get(data, "title"))))
             time    == Get(session, "time")
         IN
    IF time.t # "obj" THEN IngestFailure("TypeError", tree)
    ELSE LET projectData ==
                 JObj(<< <<"id", Get(session, "projectID")>>,
                         <<"worktree", Get(session, "directory")>>,
                         <<"vcs", JStr(<<"git">>)>>,
                         <<"time", JObj(<< <<"created", Get(time, "created")>>,
                                           <<"updated", Get(time, "updated")>> >>)>> >>)
             messageEntries == EntriesOfType(privateShare, "message")
             partEntries    == EntriesOfType(privateShare, "part")
             diffEntry      == FindEntry(privateShare, "session_diff")
             written ==
                 writeSessionDiff(
                     WriteParts(
                         WriteMessages(
                             writeSession(writeProject(tree, projectData), session),
                             messageEntries),
                         partEntries),
                     TextOf(Get(session, "id")),
                     IF diffEntry = NoValue THEN JArr(<<>>) ELSE Get(diffEntry, "data"))
         IN  [error        |-> "none",
              tree         |-> written,
              sessionId    |-> TextOf(Get(session, "id")),
              sessionTitle |-> TextOf(Get(session, "title")),
              messageCount |-> Len(messageEntries),
              partCount    |-> Len(partEntries),
              pathRemapped |-> doRemap,
              originalPath |-> TextOf(original),
              newPath      |-> IF doRemap THEN remapToPath ELSE NullPath]

(***************************************************************************)
(* The ingest-session tool of the plugin                                   *)
(***************************************************************************)
\* Mutant of AvailableSessions: no listing is added.
AvailableSessions_None(dir) == <<>>

\* The "Available sessions:" lines of an error message: one per saved
\* session, none when there is no saved session.
AvailableSessions(dir) ==
    IF Len(listSessions(dir)) > 0 THEN listSessions(dir) ELSE <<>>

ToolOutcome(outcome, kind, message, listing, tree, ingest) ==
    [outcome |-> outcome, kind |-> kind, message |-> message,
     listing |-> listing, tree |-> tree,
     pathRemapped |-> ingest.pathRemapped, newPath |-> ingest.newPath]

ListShareId == <<"list">>

\* "ingest-session" execute({shareId, projectPath, searchForRepo})
ingestSessionTool(dir, tree, shareId, projectPath, searchForRepo) ==
    LET none == IngestFailure("not called", tree) IN
    IF shareId = ListShareId
    THEN IF Len(listSessions(dir)) = 0
         THEN ToolOutcome("returned", "noSessions", <<"No sessions found">>,
                          <<>>, tree, none)
         ELSE ToolOutcome("returned", "list", <<"Available sessions">>,
                          listSessions(dir), tree, none)
    ELSE LET analysis == analyzeSession(dir, shareId) IN
    IF analysis.error # "none"
    THEN ToolOutcome("thrown", "analyzeFailed",
                     <<"Failed to analyze session: ", analysis.error>>,
                     AvailableSessions(dir), tree, none)
    ELSE IF projectPath # <<>> /\ ~verifyRepoPath(projectPath)
    THEN ToolOutcome("thrown", "invalidProjectPath",
                     <<"Invalid project path ">> \o projectPath, <<>>, tree, none)
    ELSE LET pathResolution == analysis.pathResolution IN
    IF /\ projectPath = <<>>
       /\ ~pathResolution.resolved
       /\ \/ ~searchForRepo
          \/ Len(pathResolution.candidates) = 0 /\ pathResolution.requiresUserInput
    THEN ToolOutcome("returned", "needProjectPath",
                     <<"This path does not exist on this machine">>, <<>>, tree, none)
    ELSE IF /\ projectPath = <<>>
            /\ ~pathResolution.resolved
            /\ Len(pathResolution.candidates) > 1
    THEN ToolOutcome("returned", "chooseCandidate",
                     <<"Multiple possible locations">>,
                     pathResolution.candidates, tree, none)
    ELSE LET remapToPath ==
                 IF projectPath # <<>> THEN projectPath
                 ELSE IF ~pathResolution.resolved
                         /\ pathResolution.newPath # NullPath
                 THEN pathResolution.newPath
                 ELSE <<>>
             ingest == ingestSession(dir, tree, shareId, remapToPath)
         IN  IF ingest.error = "none"
             THEN ToolOutcome("returned", "ingested",
                              <<"Session ingested successfully!">>, <<>>,
                              ingest.tree, ingest)
             ELSE ToolOutcome("thrown", "ingestFailed",
                              <<"Failed to ingest session: ", ingest.error>>,
                              AvailableSessions(dir), ingest.tree, ingest)

(***************************************************************************)
(* The ingest-session specification: saved private shares, a record store, *)
(* a machine, and calls of the ingest-session tool                         *)
(***************************************************************************)
ShareEntry(type, data) ==
    JObj(<< <<"type", JStr(<<type>>)>>, <<"data", data>> >>)

\* {id, sessionID, data: [...]}
ShareDoc(shareId, entries) ==
    JObj(<< <<"id", JStr(shareId)>>, <<"sessionID", JStr(SessionId)>>,
            <<"data", JArr(entries)>> >>)

SessionTime == JObj(<< <<"created", JNum(1)>>, <<"updated", JNum(2)>> >>)

\* The entries that follow the session entry of a share.
ShareRest(directory) ==
    << ShareEntry("message", MessageDoc(MsgId(1), SessionId, directory)),
       ShareEntry("part", PartDoc(PartId(1, 1), MsgId(1), SessionId, directory)),
       ShareEntry("session_diff", DiffDoc(directory)) >>

GoodShare   == <<"good">>
OldShare    == <<"old">>
NoTimeShare == <<"notime">>
BrokenShare == <<"broken">>
NoSessionShare == <<"nosession">>
MissingShare   == <<"missing">>

\* The share files a shares directory may hold: a complete share of a
\* session made in RepoPath, one of a session made in OldPath, a share whose
\* session has no time field, a file that is not JSON, and a share without
\* a session entry.
ShareFiles ==
    { <<resolveShareFilePath(GoodShare),
        JsonFile(ShareDoc(GoodShare,
            <<ShareEntry("session",
                  With(SessionDoc(SessionId, ProjectId, FixBug, RepoPath),
                       "time", SessionTime))>> \o ShareRest(RepoPath)))>>,
      <<resolveShareFilePath(OldShare),
        JsonFile(ShareDoc(OldShare,
            <<ShareEntry("session",
                  With(SessionDoc(SessionId, ProjectId, FixBug, OldPath),
                       "time", SessionTime))>> \o ShareRest(OldPath)))>>,
      <<resolveShareFilePath(NoTimeShare),
        JsonFile(ShareDoc(NoTimeShare,
            <<ShareEntry("session",
                  SessionDoc(SessionId, ProjectId, FixBug, RepoPath))>>))>>,
      <<resolveShareFilePath(BrokenShare), Blob(0)>>,
      <<resolveShareFilePath(NoSessionShare),
        JsonFile(ShareDoc(NoSessionShare, ShareRest(RepoPath)))>> }

ShareDirs == {TreeOf(S) : S \in SUBSET ShareFiles}

\* The share ids the tool is called with.
ShareIds ==
    {ListShareId, GoodShare, OldShare, NoTimeShare, BrokenShare,
     NoSessionShare, MissingShare}

\* Where git repositories named like the project may be on the machine.
IngestSlots ==
    { Join(Join(Home, <<"code">>), RepoName),
      Join(Join(Home, <<"Projects">>), RepoName),
      Join(Home, RepoName) }

\* The machine: the two explicit targets, the chosen repositories, and the
\* session's original directory as origKind says.
IngestFs(slots, origKind) ==
    MakeFs([q \in slots \cup {ValidTarget, PlainTarget} |->
               IF q = PlainTarget THEN "plain" ELSE "git"],
           RepoPath, origKind)

InitIngest ==
    /\ pc = "init"
    /\ RemapIdle
    /\ ResolveIdle
    /\ BuildIdle
    /\ CrashIdle
    /\ ConcIdle
    /\ SortIdle
    /\ home = Home
    /\ \E slots \in {T \in SUBSET IngestSlots : Cardinality(T) <= MaxRepos},
          origKind \in {"absent", "dir"} :
          fs = IngestFs(slots, origKind)
    /\ shares \in ShareDirs
    /\ store \in {EmptyTree, StaleStore}
    /\ storeBefore = EmptyTree
    /\ srcStore = NoTree
    /\ archive = [exists |-> FALSE, tree |-> EmptyTree]
    /\ result = NoResult
    /\ prevResult = NoResult
    /\ runs = 0
    /\ tool = NoCall

\* One call of the ingest-session tool.
IngestSessionTool(shareId, projectPath, searchForRepo) ==
    /\ pc = "init"
    /\ pc' = "ingest-session"
    /\ \E out \in {ingestSessionTool(shares, store, shareId, projectPath,
                                     searchForRepo)} :
          /\ store' = out.tree
          /\ tool' = [outcome |-> out.outcome, kind |-> out.kind,
                      message |-> out.message, listing |-> out.listing,
                      shareId |-> shareId, projectPath |-> projectPath,
                      searchForRepo |-> searchForRepo,
                      pathRemapped |-> out.pathRemapped,
                      newPath |-> out.newPath]
    /\ storeBefore' = store
    /\ UNCHANGED <<shares, srcStore, archive, result, prevResult, runs,
                   remapVars, resolveVars, machineVars, buildVars, crashVars,
                   concVars, sortVars>>

NextIngest ==
    \E shareId \in ShareIds, projectPath \in RemapTargets,
       searchForRepo \in BOOLEAN :
        IngestSessionTool(shareId, projectPath, searchForRepo)

SpecIngest == InitIngest /\ [][NextIngest]_vars

(***************************************************************************)
(* Claims about ingest-session                                             *)
(***************************************************************************)
Called   == tool.outcome # "not called"
Ingested == tool.kind = "ingested"
Thrown   == tool.outcome = "thrown"

\* The share ids of the saved sessions: the .json files of the directory.
SavedSessions == {ShareIdOf(f) : f \in {g \in DOMAIN shares : EndsWith(g, JsonExt)}}

\* The share ids a listing names.
ListedSessions(listing) == {listing[i][1] : i \in DOMAIN listing}

\* Every share of ShareFiles that holds a session has projectID ProjectId.
ProjectFile == ProjectFilePath(ProjectId)

\* C18: after a successful ingest the document project/<session.projectID>.json
\* exists, and if one existed before the ingest its content is unchanged,
\* whatever the session's directory or the remap target is.
C18_ProjectLazyNeverOverwritten ==
    Ingested =>
        /\ ProjectFile \in DOMAIN store
        /\ ProjectFile \in DOMAIN storeBefore
               => store[ProjectFile] = storeBefore[ProjectFile]

\* C18 witness: a share was ingested with a remap to a git repository into a
\* store that already held the project document while the session document
\* was replaced.
C18_Witness ==
    /\ Ingested
    /\ tool.pathRemapped
    /\ ProjectFile \in DOMAIN storeBefore
    /\ store[ProjectFile] = storeBefore[ProjectFile]
    /\ store[SessionFilePath(ProjectId, SessionId)]
           # storeBefore[SessionFilePath(ProjectId, SessionId)]

\* C19 as stated: every failure of the tool carries a message and, whenever
\* at least one saved session exists, a listing of the saved sessions.
C19_EveryFailureListsSessions ==
    Thrown =>
        /\ tool.message # <<>>
        /\ SavedSessions # {} => ListedSessions(tool.listing) = SavedSessions

\* C19 amended: every failure of the tool carries a message; the failures of
\* the analysis and of the ingestion list every saved session whenever one
\* exists; the failure for an invalid explicit projectPath has no listing.
C19_AnalysisAndIngestFailuresListSessions ==
    Thrown =>
        /\ tool.message # <<>>
        /\ tool.kind \in {"analyzeFailed", "ingestFailed", "invalidProjectPath"}
        /\ tool.kind # "invalidProjectPath"
               => ListedSessions(tool.listing) = SavedSessions
        /\ tool.kind = "invalidProjectPath" => tool.listing = <<>>

\* C19 witness: the ingestion failed after a successful analysis and the
\* failure lists the several saved sessions.
C19_Witness ==
    /\ Thrown
    /\ tool.kind = "ingestFailed"
    /\ Cardinality(SavedSessions) > 1
    /\ ListedSessions(tool.listing) = SavedSessions

\* The git repositories named like the project below the search roots.
DiscoverableRepos == {p \in IngestSlots : GitRepository(p)}

\* C20: when the original directory of the session does not exist, no
\* projectPath is given and exactly one git repository named like the project
\* is discoverable, the tool ingests the session remapped to that repository
\* and reports pathRemapped = true with newPath equal to it.
C20_AutomaticRemap ==
    ( /\ Called
      /\ tool.shareId = GoodShare
      /\ resolveShareFilePath(GoodShare) \in DOMAIN shares
      /\ tool.projectPath = NoTarget
      /\ tool.searchForRepo
      /\ RepoPath \notin fs.dirs
      /\ Cardinality(DiscoverableRepos) = 1 )
    => /\ Ingested
       /\ tool.pathRemapped
       /\ {tool.newPath} = DiscoverableRepos

(***************************************************************************)
(* Extraction of an archive received from elsewhere                        *)
(***************************************************************************)
NotesPath == Join(Join(RelPath(<<StorageDir, <<"session">>>>), ProjectId),
                  <<"notes", ".txt">>)

\* The unpacked trees of the archives handed to extractSessionArchive: an
\* empty archive, one with snapshot files only, one with message and part
\* files but no session index, one whose session index holds a project
\* directory without a .json document, and two archives of a session.
ReceivedArchives ==
    { EmptyTree,
      TreeOf({<<SnapPath(1), Blob(1)>>}),
      TreeOf({<<MessagePath(SessionId, 1),
                JsonFile(MessageDoc(MsgId(1), SessionId, RepoPath))>>,
              <<PartPath(1, 1),
                JsonFile(PartDoc(PartId(1, 1), MsgId(1), SessionId, RepoPath))>>}),
      TreeOf({<<NotesPath, Blob(0)>>,
              <<MessagePath(SessionId, 1),
                JsonFile(MessageDoc(MsgId(1), SessionId, RepoPath))>>,
              <<SnapPath(1), Blob(1)>>}),
      StageFiles(SourceStore(FixBug, RepoPath, 1, 1, TRUE, TRUE, 1),
                 collectSessionFiles(SourceStore(FixBug, RepoPath, 1, 1,
                                                 TRUE, TRUE, 1), SessionId).files),
      StageFiles(SourceStore(FixBug, RepoPath, 0, 0, FALSE, FALSE, 0),
                 collectSessionFiles(SourceStore(FixBug, RepoPath, 0, 0,
                                                 FALSE, FALSE, 0), SessionId).files) }

InitReceive ==
    /\ pc = "init"
    /\ RemapIdle
    /\ ResolveIdle
    /\ LaterIdle
    /\ fs = ArchiveFs
    /\ home = Home
    /\ srcStore = NoTree
    /\ \E tree \in ReceivedArchives : archive = [exists |-> TRUE, tree |-> tree]
    /\ store \in {EmptyTree, StaleStore}
    /\ storeBefore = EmptyTree
    /\ result = NoResult
    /\ prevResult = NoResult
    /\ runs = 0

NextReceive ==
    \E remapToPath \in RemapTargets : ExtractSessionArchive(remapToPath)

SpecReceive == InitReceive /\ [][NextReceive]_vars

\* The archive has a storage/session directory.
HasSessionIndex ==
    \E p \in DOMAIN archive.tree :
        StartsWith(p, RelPath(<<StorageDir, <<"session">>>>) \o <<"/">>)

\* The .json documents at storage/session/<project>/<name>.json.
SessionDocuments ==
    {p \in DOMAIN archive.tree :
        /\ EndsWith(p, JsonExt)
        /\ \E q \in DOMAIN archive.tree :
              p = SessionFilePath(TextOf(Get(archive.tree[q].val, "projectID")),
                                  TextOf(Get(archive.tree[q].val, "id")))}

InvalidReceived == ~HasSessionIndex \/ SessionDocuments = {}

\* C21: extracting an archive without a storage/session directory, or whose
\* session index holds no session JSON document, fails with an error and
\* writes nothing to the destination store.
C21_InvalidArchiveFailsWithoutWrites ==
    (Extracted /\ InvalidReceived) =>
        /\ result.error \notin {"none", "not called"}
        /\ store = storeBefore

\* C21 witness: an archive whose session index holds no document, beside a
\* message file and a snapshot file, was rejected and the store is as before.
C21_Witness ==
    /\ Extracted
    /\ HasSessionIndex
    /\ SessionDocuments = {}
    /\ FilesBelow(archive.tree, SnapshotDir) # {}
    /\ result.error = "InvalidArchive"
    /\ store = storeBefore

(***************************************************************************)
(* The depth of the repository search (checked under SpecResolve)          *)
(***************************************************************************)
Searched == pc = "resolveProjectPath" /\ ~pathExistsSync(originalPath)

\* d lies at most depth directory levels below one of the search roots.
WithinLevels(d, depth) ==
    \E i \in DOMAIN getCommonSearchPaths :
        Below(getCommonSearchPaths[i], d, depth)

\* The git repositories named like the project that lie below a search root,
\* at any depth.
ReposBelowRoots ==
    {d \in fs.dirs :
        /\ BaseName(d) = projectName
        /\ Join(d, GitDir) \in fs.dirs
        /\ WithinLevels(d, Len(d))}

\* C22 as stated: with the default maxDepth = 3 the search returns only
\* directories at most 3 directory levels below a search root.
C22_WithinThreeLevels ==
    Searched =>
        \A d \in Range(resolution.candidates) : WithinLevels(d, DefaultMaxDepth)

\* C22 amended: with the default maxDepth = 3 the search returns only
\* directories at most maxDepth + 1 = 4 directory levels below a search root;
\* a repository nested deeper than that below every root is never returned.
C22_WithinMaxDepthPlusOne ==
    Searched =>
        \A d \in Range(resolution.candidates) :
            WithinLevels(d, DefaultMaxDepth + 1)

\* C22 witness: the search returned a repository 4 levels below a root and
\* left out one that lies deeper below every root.
C22_Witness ==
    /\ Searched
    /\ \E d \in Range(resolution.candidates) :
          WithinLevels(d, DefaultMaxDepth + 1) /\ ~WithinLevels(d, DefaultMaxDepth)
    /\ \E d \in ReposBelowRoots :
          ~WithinLevels(d, DefaultMaxDepth + 1)
          /\ d \notin Range(resolution.candidates)

(***************************************************************************)
(* A failure of the staging copy (checked under SpecBuild)                 *)
(***************************************************************************)
CopyFailed == built.error = "EACCES"

\* C23: a step that ends with the error of a failed copy into the staging
\* directory returns no archive id and leaves every archive file as it was:
\* the compression command is not run, no archive is created or modified.
C23_CopyFailureAbortsBeforeZip ==
    [][ built'.error = "EACCES" =>
            /\ built'.archiveId = <<>>
            /\ archives' = archives ]_vars

\* C23 witness: a build of an existing session failed in the copy loop while
\* the archives directory held an archive.
C23_Witness ==
    /\ CopyFailed
    /\ SessionExists(built.sessionId)
    /\ DOMAIN archives # {}

(***************************************************************************)
(* The relative-path convention of collector and extractor (under Spec)    *)
(***************************************************************************)
\* The relative paths collectSessionFiles records for the archived session.
CollectedRelativePaths ==
    LET files == collectSessionFiles(srcStore, SessionId).files
    IN  {files[i].relativePath : i \in 1..Len(files)}

ExtractedUnmapped == Succeeded /\ ~result.pathRemapped

\* C24: after an archive of the session was built and extracted without
\* remapping, every file collected with relative path r is at r in the
\* destination's data directory (a file written by the extraction holds the
\* collected content; a session document is re-serialized), and the
\* extraction placed no file at a path that is not a collected relative path.
C24_PathConventionAgrees ==
    ExtractedUnmapped =>
        LET collected == CollectedRelativePaths
        IN  /\ \A r \in collected :
                  /\ r \in DOMAIN store
                  /\ r \notin DOMAIN storeBefore =>
                        IF Includes(r, <<"/", "session", "/">>)
                        THEN Get(store[r].val, "id") = Get(srcStore[r].val, "id")
                        ELSE store[r] = srcStore[r]
            /\ (DOMAIN store \ DOMAIN storeBefore) \subseteq collected

\* C24 witness: an archive with session, message, part and snapshot files
\* was extracted without remapping into an empty data directory, which then
\* holds exactly the collected relative paths.
C24_Witness ==
    /\ ExtractedUnmapped
    /\ storeBefore = EmptyTree
    /\ DOMAIN store = CollectedRelativePaths
    /\ FilesBelow(store, SnapshotDir) # {}
    /\ PartPath(1, 1) \in DOMAIN store
    /\ DOMAIN store # DOMAIN srcStore

(***************************************************************************)
(* createSessionArchive invocations in flight at the same time             *)
(*                                                                         *)
(* Each invocation is a chain of awaited steps: the staging directory is   *)
(* named after Date.now() and created, the collected files are copied into *)
(* it, zip is run in it, and it is removed.  The steps of two invocations  *)
(* interleave, and the millisecond clock may or may not tick in between.   *)
(***************************************************************************)
\* The last value the clock takes.
MaxClock == 2

Invocations == {1, 2}

NoInvocation == [pc |-> "idle", dir |-> <<>>, sessionId |-> <<>>, error |-> "none"]

\* join(tmpdir(), `opencode-archive-${Date.now()}`)
StagingDirAt(now) == <<"/", "tmp", "/", "opencode-archive-", now>>

InitConc ==
    /\ pc = "init"
    /\ RemapIdle
    /\ ResolveIdle
    /\ CrashIdle
    /\ IngestIdle
    /\ SortIdle
    /\ fs = NoFs
    /\ home = <<>>
    /\ \E nMsgs \in 0..1, nSnap \in 0..1 :
          srcStore = SourceStore(FixBug, RepoPath, nMsgs, 1, TRUE, TRUE, nSnap)
    /\ archive = [exists |-> FALSE, tree |-> NoTree]
    /\ store = NoTree
    /\ storeBefore = NoTree
    /\ result = NoResult
    /\ prevResult = NoResult
    /\ runs = 0
    /\ archives = <<>>
    /\ tmp = <<>>
    /\ today = Dates[1]
    /\ built = NoBuild
    /\ clock = 0
    /\ procs = [i \in Invocations |-> NoInvocation]

ConcUnchanged ==
    UNCHANGED <<today, built, packages, sorted, crashVars, ingestVars,
                remapVars, resolveVars, machineVars, archiveVars>>

\* Date.now() moves on by a millisecond.
Tick ==
    /\ clock < MaxClock
    /\ clock' = clock + 1
    /\ pc' = "tick"
    /\ UNCHANGED <<procs, archives, tmp>>
    /\ ConcUnchanged

\* createSessionArchive(sessionId) up to the mkdir of the staging directory
StartArchive(i, sessionId) ==
    /\ procs[i].pc = "idle"
    /\ collectSessionFiles(srcStore, sessionId).found
    /\ procs' = [procs EXCEPT ![i] = [pc |-> "staging",
                                      dir |-> StagingDirAt(clock),
                                      sessionId |-> sessionId,
                                      error |-> "none"]]
    /\ tmp' = MkDir(tmp, StagingDirAt(clock))
    /\ pc' = "mkdir"
    /\ UNCHANGED <<clock, archives>>
    /\ ConcUnchanged

\* the staging loop: mkdir of each parent directory and a copy of each file
StageCollected(i) ==
    /\ procs[i].pc = "staging"
    /\ tmp' = [MkDir(tmp, procs[i].dir) EXCEPT ![procs[i].dir] =
                  Overlay(@, StageFiles(srcStore,
                      collectSessionFiles(srcStore, procs[i].sessionId).files))]
    /\ procs' = [procs EXCEPT ![i].pc = "zip"]
    /\ pc' = "stage"
    /\ UNCHANGED <<clock, archives>>
    /\ ConcUnchanged

\* cd tmpDir && zip -r archivePath .
ZipStaged(i) ==
    /\ procs[i].pc = "zip"
    /\ IF procs[i].dir \in DOMAIN tmp
       THEN /\ archives' = Zip(archives,
                               ArchiveId(today,
                                   collectSessionFiles(srcStore,
                                       procs[i].sessionId).title),
                               tmp[procs[i].dir])
            /\ procs' = [procs EXCEPT ![i].pc = "cleanup"]
       ELSE /\ archives' = archives
            /\ procs' = [procs EXCEPT ![i].pc = "cleanup", ![i].error = "zip"]
    /\ pc' = "zip"
    /\ UNCHANGED <<clock, tmp>>
    /\ ConcUnchanged

\* finally: rm(tmpDir, {recursive: true, force: true})
RemoveStaging(i) ==
    /\ procs[i].pc = "cleanup"
    /\ tmp' = RmDir(tmp, procs[i].dir)
    /\ procs' = [procs EXCEPT ![i].pc = "done"]
    /\ pc' = "rm"
    /\ UNCHANGED <<clock, archives>>
    /\ ConcUnchanged

NextConc ==
    \/ Tick
    \/ \E i \in Invocations, sessionId \in {SessionId, OtherSession} :
          StartArchive(i, sessionId)
    \/ \E i \in Invocations : StageCollected(i)
    \/ \E i \in Invocations : ZipStaged(i)
    \/ \E i \in Invocations : RemoveStaging(i)

SpecConc == InitConc /\ [][NextConc]_vars

InFlight(i) == procs[i].pc \in {"staging", "zip", "cleanup"}

\* C25: two invocations of createSessionArchive that are in flight at the
\* same time for different sessions never share a staging directory.
C25_FreshStagingDirectories ==
    \A i \in DOMAIN procs, j \in DOMAIN procs :
        ( /\ i # j
          /\ InFlight(i)
          /\ InFlight(j)
          /\ procs[i].sessionId # procs[j].sessionId )
        => procs[i].dir # procs[j].dir

(***************************************************************************)
(* The needs-more-input results of the ingest-session tool (SpecIngest)    *)
(***************************************************************************)
\* The tool was called for the saved share of the session made in RepoPath
\* without a projectPath, RepoPath does not exist on the machine, and the
\* search finds no repository or several.
UnresolvedCall ==
    /\ Called
    /\ tool.shareId = GoodShare
    /\ resolveShareFilePath(GoodShare) \in DOMAIN shares
    /\ tool.projectPath = NoTarget
    /\ RepoPath \notin fs.dirs
    /\ Cardinality(DiscoverableRepos) # 1

NeedsInput ==
    /\ tool.outcome = "returned"
    /\ tool.kind \in {"needProjectPath", "chooseCandidate"}
    /\ tool.message # <<>>
    /\ store = storeBefore

\* C26 as stated: an unresolved path without projectPath makes the tool
\* return a needs-more-input message without throwing and without writing,
\* and with several candidates the message lists every candidate.
C26_UnresolvedAsksListingCandidates ==
    UnresolvedCall =>
        /\ NeedsInput
        /\ Cardinality(DiscoverableRepos) > 1
               => Range(tool.listing) = DiscoverableRepos

\* C26 amended: an unresolved path without projectPath makes the tool return
\* a needs-more-input message without throwing and without writing; with
\* several candidates the message lists every candidate unless searchForRepo
\* is false, in which case it lists none.
C26_UnresolvedAsksListingIfSearching ==
    UnresolvedCall =>
        /\ NeedsInput
        /\ (Cardinality(DiscoverableRepos) > 1 /\ tool.searchForRepo)
               => Range(tool.listing) = DiscoverableRepos
        /\ ~tool.searchForRepo => tool.listing = <<>>

\* C26 witness: several repositories were found, the tool returned the
\* message that lists them, and the populated store is as it was.
C26_Witness ==
    /\ UnresolvedCall
    /\ tool.searchForRepo
    /\ Cardinality(DiscoverableRepos) > 1
    /\ tool.kind = "chooseCandidate"
    /\ Range(tool.listing) = DiscoverableRepos
    /\ store = StaleStore

(***************************************************************************)
(* The reported remap and the session document on disk (under Spec)        *)
(***************************************************************************)
DirectoryAt(tree) == TextOf(Get(tree[ArchivedSessionPath].val, "directory"))

RemapReported == Succeeded /\ result.pathRemapped

\* C27 as stated: whenever extractSessionArchive returns pathRemapped = true
\* with newPath = P, the session document of the destination has directory
\* P, also when the session file was at the destination before.
C27_ReportedRemapOnDisk ==
    RemapReported => DirectoryAt(store) = result.newPath

\* C27 amended: whenever extractSessionArchive returns pathRemapped = true
\* with newPath = P and the session file was not at the destination before,
\* the session document of the destination has directory P; a session file
\* that was there before is left as it was.
C27_ReportedRemapOnDiskWhenWritten ==
    RemapReported =>
        IF ArchivedSessionPath \in DOMAIN storeBefore
        THEN store[ArchivedSessionPath] = storeBefore[ArchivedSessionPath]
        ELSE DirectoryAt(store) = result.newPath

\* C27 witness: the session document was written by an extraction that
\* reports a remap to the git repository, and its directory is that one.
C27_Witness ==
    /\ RemapReported
    /\ ArchivedSessionPath \notin DOMAIN storeBefore
    /\ result.newPath = ValidTarget
    /\ ArchivedDirectory = RepoPath
    /\ DirectoryAt(store) = ValidTarget

(***************************************************************************)
(* remapPaths applied twice (checked under SpecRemap)                      *)
(***************************************************************************)
\* Every string value a JSON value holds, at any depth.
RECURSIVE StringsOf(_)
StringsOf(o) ==
    CASE o.t = "str" -> {o.v}
      [] o.t = "arr" -> UNION {StringsOf(o.v[i]) : i \in 1..Len(o.v)}
      [] o.t = "obj" -> UNION {StringsOf(o.v[i][2]) : i \in 1..Len(o.v)}
      [] OTHER       -> {}

Remapped == pc = "remapPaths"

IdempotentHere ==
    /\ remapPaths(remapped, oldPath, newPath) = remapped
    /\ \A str \in StringsOf(remapped) : ~StartsWith(str, oldPath)

\* C28 as stated: whenever newPath does not start with oldPath, a second
\* remapPaths changes nothing and after one application no string of the
\* result starts with oldPath.
C28_IdempotentUnlessNewExtendsOld ==
    (Remapped /\ ~StartsWith(newPath, oldPath)) => IdempotentHere

\* C28 amended: the same whenever neither of newPath and oldPath starts with
\* the other and newPath holds no "$" (which String.prototype.replace reads
\* as the start of a replacement pattern).
C28_IdempotentForUnrelatedPaths ==
    ( /\ Remapped
      /\ ~StartsWith(newPath, oldPath)
      /\ ~StartsWith(oldPath, newPath)
      /\ \A i \in 1..Len(newPath) : newPath[i] # "$" )
    => IdempotentHere

\* C28 witness: a value with a string below oldPath inside an array or an
\* object was remapped to an unrelated path, and remapping changed it.
C28_Witness ==
    /\ Remapped
    /\ newPath = <<"/", "C", "/", "repo">>
    /\ obj.t \in {"arr", "obj"}
    /\ \E str \in StringsOf(obj) : StartsWith(str, oldPath) /\ str # oldPath
    /\ remapped # obj
    /\ IdempotentHere

(***************************************************************************)
(* ingestSession called directly, once and once more                       *)
(***************************************************************************)
MarkedShare == <<"marked">>

\* A share made of a session that was itself imported: its title is marked.
MarkedShareFile ==
    <<resolveShareFilePath(MarkedShare),
      JsonFile(ShareDoc(MarkedShare,
          <<ShareEntry("session",
                With(SessionDoc(SessionId, ProjectId,
                                ImportedMarker \o <<" ">> \o FixBug, RepoPath),
                     "time", SessionTime))>> \o ShareRest(RepoPath)))>>

ScriptShareIds ==
    {GoodShare, OldShare, NoTimeShare, BrokenShare, NoSessionShare,
     MissingShare, MarkedShare}

\* The record stores ingestSession writes into: empty, holding older files
\* of the session, holding the session as its own machine does, holding
\* the project document only.
ScriptStores ==
    { EmptyTree,
      StaleStore,
      SourceStore(FixBug, RepoPath, 1, 1, TRUE, TRUE, 0),
      TreeOf({<<ProjectFilePath(ProjectId),
                JsonFile(ProjectDoc(ProjectId, OldPath))>>}) }

InitScript ==
    /\ pc = "init"
    /\ RemapIdle
    /\ ResolveIdle
    /\ BuildIdle
    /\ CrashIdle
    /\ ConcIdle
    /\ SortIdle
    /\ fs = ArchiveFs
    /\ home = Home
    /\ shares = TreeOf(ShareFiles \cup {MarkedShareFile})
    /\ store \in ScriptStores
    /\ storeBefore = EmptyTree
    /\ srcStore = NoTree
    /\ archive = [exists |-> FALSE, tree |-> EmptyTree]
    /\ result = NoResult
    /\ prevResult = NoResult
    /\ runs = 0
    /\ tool = NoCall

\* ingestSession(shareId, {remapToPath}) and what it returned or threw
Ingest(shareId, remapToPath, position) ==
    /\ pc' = position
    /\ \E out \in {ingestSession(shares, store, shareId, remapToPath)} :
          /\ store' = out.tree
          /\ tool' = [outcome |-> IF out.error = "none"
                                  THEN "returned" ELSE "thrown",
                      kind |-> out.error,
                      message |-> <<>>, listing |-> <<>>,
                      shareId |-> shareId, projectPath |-> remapToPath,
                      searchForRepo |-> FALSE,
                      pathRemapped |-> out.pathRemapped,
                      newPath |-> out.newPath]
    /\ storeBefore' = store
    /\ UNCHANGED <<shares, srcStore, archive, result, prevResult, runs,
                   remapVars, resolveVars, machineVars, buildVars, crashVars,
                   concVars, sortVars>>

IngestSession(shareId, remapToPath) ==
    /\ pc = "init"
    /\ Ingest(shareId, remapToPath, "ingestSession")

\* The same call once more.
IngestSessionAgain ==
    /\ pc = "ingestSession"
    /\ Ingest(tool.shareId, tool.projectPath, "ingestSession again")

NextScript ==
    \/ \E shareId \in ScriptShareIds, remapToPath \in RemapTargets :
          IngestSession(shareId, remapToPath)
    \/ IngestSessionAgain

SpecScript == InitScript /\ [][NextScript]_vars

\* The title of the session entry of the share file the call named.
ShareTitle ==
    TextOf(Get(Get(FindEntry(shares[resolveShareFilePath(tool.shareId)].val,
                             "session"), "data"), "title"))

StoredTitle == TextOf(Get(store[SessionFilePath(ProjectId, SessionId)].val, "title"))

IngestedTwice == pc = "ingestSession again" /\ tool.kind = "none"

RejectedBeforeWriting ==
    (pc # "init" /\ tool.kind \in {"InvalidRemapPath", "NoSessionData"})
        => store = storeBefore

\* C29 as stated: the second ingest of the same share file with the same
\* options leaves the store as the first left it, the stored session title
\* carries exactly one "[IMPORTED] " prefix, and an ingest that throws for an
\* invalid remap target or a missing session entry has written nothing.
C29_IdempotentOneMarker ==
    /\ IngestedTwice =>
          /\ store = storeBefore
          /\ StartsWith(StoredTitle, ImportedMarker \o <<" ">>)
          /\ ~StartsWith(SubSeq(StoredTitle, 3, Len(StoredTitle)), ImportedMarker)
    /\ RejectedBeforeWriting

\* C29 amended: the second ingest leaves the store as the first left it, the
\* stored session title is "[IMPORTED] " followed by the title in the share
\* file (one marker more than the share's title has), and an ingest that
\* throws for an invalid remap target or a missing session entry has
\* written nothing.
C29_IdempotentMarkerAddedOnce ==
    /\ IngestedTwice =>
          /\ store = storeBefore
          /\ StoredTitle = ImportedMarker \o <<" ">> \o ShareTitle
    /\ RejectedBeforeWriting

\* C29 witness: a share was ingested twice with a remap into a store that
\* held an older session document, which the first ingest replaced.
C29_Witness ==
    /\ IngestedTwice
    /\ tool.pathRemapped
    /\ store = storeBefore
    /\ StoredTitle = ImportedMarker \o <<" ">> \o FixBug
    /\ store[SessionFilePath(ProjectId, SessionId)]
           # StaleStore[SessionFilePath(ProjectId, SessionId)]
    /\ store[ProjectFilePath(ProjectId)] = StaleStore[ProjectFilePath(ProjectId)]

(***************************************************************************)
(* The publish script: sortByDependencies                                  *)
(*                                                                         *)
(* A package is [name, path, dependencies]; dependencies is the sequence   *)
(* of the keys of the dependencies object of its package.json.             *)
(***************************************************************************)
\* packages.find((p) => p.name === dep)
FindPackage(pkgs, name) ==
    pkgs[CHOOSE i \in DOMAIN pkgs :
            /\ pkgs[i].name = name
            /\ \A j \in 1..(i - 1) : pkgs[j].name # name]

\* The inner function visit and its loop over pkg.dependencies; st holds
\* sorted, visited and visiting, and the error thrown, if any.
RECURSIVE visit(_, _, _)
RECURSIVE VisitDependencies(_, _, _)
VisitDependencies(pkgs, st, deps) ==
    IF deps = <<>> \/ st.error # "none" THEN st
    ELSE VisitDependencies(pkgs,
             IF \E i \in DOMAIN pkgs : pkgs[i].name = Head(deps)
             THEN visit(pkgs, st, FindPackage(pkgs, Head(deps)))
             ELSE st,
             Tail(deps))
visit(pkgs, st, pkg) ==
    IF st.error # "none" THEN st
    ELSE IF pkg.name \in st.visited THEN st
    ELSE IF pkg.name \in st.visiting
    THEN [st EXCEPT !.error = "Circular dependency detected"]
    ELSE LET after == VisitDependencies(pkgs,
                          [st EXCEPT !.visiting = @ \cup {pkg.name}],
                          pkg.dependencies)
         IN  IF after.error # "none" THEN after
             ELSE [after EXCEPT !.visiting = @ \ {pkg.name},
                                !.visited  = @ \cup {pkg.name},
                                !.sorted   = Append(@, pkg)]

\* for (const pkg of packages) visit(pkg)
RECURSIVE VisitAll(_, _, _)
VisitAll(pkgs, st, rest) ==
    IF rest = <<>> THEN st
    ELSE VisitAll(pkgs, visit(pkgs, st, Head(rest)), Tail(rest))

\* part_006 sortByDependencies: the order returned, or the error thrown
sortByDependencies(pkgs) ==
    LET final == VisitAll(pkgs,
                     [sorted |-> <<>>, visited |-> {}, visiting |-> {},
                      error |-> "none"],
                     pkgs)
    IN  [error |-> final.error,
         order |-> IF final.error = "none" THEN final.sorted ELSE <<>>]

\* Most packages with different names.
MaxPkgs == 3
\* Most dependency entries of all packages together.
MaxEdges == 3

AllNames == <<"a", "b", "c", "d", "e">>
PackageNames == {AllNames[i] : i \in 1..MaxPkgs}
\* A dependency that is not a package of the repository.
External == "ext"

Package(name, dir, edges) ==
    [name |-> name,
     path |-> <<dir, "/", name>>,
     dependencies |-> SetToSeq({e[2] : e \in {f \in edges : f[1] = name}})]

Reverse(xs) == [i \in 1..Len(xs) |-> xs[Len(xs) + 1 - i]]

\* What discoverPackages may return: one package per name with up to
\* MaxEdges dependency entries in all, in either order, alone or followed by
\* a second package.json that carries the name of the first package.
PackageLists ==
    UNION { LET listed == [i \in 1..MaxPkgs |->
                              Package(AllNames[i], "packages", edges)]
                copy   == Package(AllNames[1], "examples",
                                  {<<AllNames[1], AllNames[MaxPkgs]>>})
            IN  { listed, Reverse(listed),
                  Append(listed, copy), Append(Reverse(listed), copy) } :
            edges \in {E \in SUBSET (PackageNames \X (PackageNames \cup {External})) :
                         Cardinality(E) <= MaxEdges} }

InitSort ==
    /\ pc = "init"
    /\ RemapIdle
    /\ ResolveIdle
    /\ ArchiveIdle
    /\ BuildIdle
    /\ CrashIdle
    /\ IngestIdle
    /\ ConcIdle
    /\ fs = NoFs
    /\ home = <<>>
    /\ packages \in PackageLists
    /\ sorted = NoSort

SortByDependencies ==
    /\ pc = "init"
    /\ pc' = "sortByDependencies"
    /\ sorted' = sortByDependencies(packages)
    /\ UNCHANGED <<packages, remapVars, resolveVars, machineVars, archiveVars,
                   buildVars, crashVars, ingestVars, concVars>>

NextSort == SortByDependencies

SpecSort == InitSort /\ [][NextSort]_vars

(***************************************************************************)
(* Claims about sortByDependencies (checked under SpecSort)                *)
(***************************************************************************)
Sorted == pc = "sortByDependencies"

ListedNames == {packages[i].name : i \in DOMAIN packages}

\* The first package of each name, the one packages.find returns.
FirstOfName ==
    {packages[i] : i \in {k \in DOMAIN packages :
                            \A j \in 1..(k - 1) : packages[j].name # packages[k].name}}

\* name -> dependency pairs of the given packages, listed names only
DependencyEdges(pkgs) ==
    UNION {{<<p.name, d>> : d \in Range(p.dependencies) \cap ListedNames} : p \in pkgs}

Successors(E, S) == {e[2] : e \in {f \in E : f[1] \in S}}

\* The names reached from S along 1 to k edges.
RECURSIVE ReachWithin(_, _, _)
ReachWithin(E, S, k) ==
    IF k = 0 THEN {}
    ELSE Successors(E, S) \cup ReachWithin(E, Successors(E, S), k - 1)

Cyclic(E) ==
    \E n \in ListedNames : n \in ReachWithin(E, {n}, Cardinality(ListedNames))

\* Every dependency of a package of the order that is a listed name stands
\* before the package.
DependenciesFirst(order) ==
    \A i \in DOMAIN order :
        \A d \in Range(order[i].dependencies) \cap ListedNames :
            \E j \in 1..(i - 1) : order[j].name = d

\* C30 as stated: sortByDependencies returns every discovered package exactly
\* once, each after its listed dependencies, and throws the circular
\* dependency error when the graph among the listed packages has a cycle.
C30_EveryPackageOnceDependenciesFirst ==
    Sorted =>
        IF Cyclic(DependencyEdges(Range(packages)))
        THEN sorted.error = "Circular dependency detected"
        ELSE /\ sorted.error = "none"
             /\ Len(sorted.order) = Len(packages)
             /\ Range(sorted.order) = Range(packages)
             /\ DependenciesFirst(sorted.order)

\* What the code does return: the first listed package of every name exactly
\* once (a later package with a name already listed is left out), each after
\* its listed dependencies, and the circular dependency error when the graph
\* among these packages has a cycle.
FirstOfEachNameOnceDependenciesFirst ==
    Sorted =>
        IF Cyclic(DependencyEdges(FirstOfName))
        THEN sorted.error = "Circular dependency detected"
        ELSE /\ sorted.error = "none"
             /\ Len(sorted.order) = Cardinality(FirstOfName)
             /\ Range(sorted.order) = FirstOfName
             /\ DependenciesFirst(sorted.order)

\* Packages with different names, one of which depends on a package listed
\* after it, came back in another order, dependencies first.
ReorderedDependenciesFirst ==
    /\ Sorted
    /\ sorted.error = "none"
    /\ Len(packages) = Cardinality(ListedNames)
    /\ DependencyEdges(Range(packages)) # {}
    /\ sorted.order # packages
    /\ Range(sorted.order) = Range(packages)
    /\ DependenciesFirst(sorted.order)
====
